---- MODULE Spec2Model ----
(***************************************************************************)
(* A model of paramiko's packet engine (src/paramiko/packet.py): two       *)
(* Packetizer objects "A" and "B" joined by a loopback socket pair, with   *)
(* their timers and raw stream reads, and of deflate_long / inflate_long   *)
(* (src/paramiko/util.py).  Bytes are the integers 0..255 and byte strings *)
(* are sequences of them.                                                  *)
(***************************************************************************)
EXTENDS Integers, Sequences, FiniteSets, TLC

\* ------------------------------------------------------------------ bounds

\* Longest payload handed to send_message.
MaxPayloadLen == 4
\* Most frames one engine writes in a run.
MaxFrames == 2
\* Length in bytes of the digest the modelled MAC engine returns.
MacLen == 2
\* Most send_message calls one thread makes in the threaded specification.
MaxThreadSends == 1
\* Most set_outbound_cipher calls made in the threaded specification.
MaxInstalls == 1
\* Last value of the clock in the runs that let time pass.
MaxTime == 3
\* Longest timeout handed to start_handshake and readline.
MaxTimeout == 2
\* Longest interval handed to set_keepalive.
MaxInterval == 2
\* Most bytes the peer writes to the raw stream in a run.
MaxStream == 4
\* Largest n handed to read_all.
MaxRead == 3
\* deflate_long and inflate_long are run on every integer of -MaxLong..MaxLong.
MaxLong == 300
MaxFeeds == 1
MaxNbytes == 2
MaxBufsize == 2
MaxFileCalls == 3
MaxContent == 3
MaxSize == 2
\* How many entries a HostKeys may hold, and how many keys there are per type.
MaxEntries == 3
MaxKeyId == 2

\* ------------------------------------------------------- program constants

REKEY_PACKETS == 536870912
REKEY_BYTES == 536870912
DEFAULT_BUFSIZE == 8192
None == "None"

Engines == {"A", "B"}
Peer(e) == IF e = "A" THEN "B" ELSE "A"
\* The runs install outbound slots on A and inbound slots on B, and follow
\* the frames from A to B: B reads them.
Senders == {"A"}
Readers == {"B"}
Threads == {"t1", "t2"}

\* ------------------------------------------------------------ byte strings

Min(a, b) == IF a < b THEN a ELSE b

RECURSIVE Sum(_)
Sum(s) == IF s = <<>> THEN 0 ELSE Head(s) + Sum(Tail(s))

\* struct.pack('>I', n)
Pack32(n) ==
  << (n \div 16777216) % 256, (n \div 65536) % 256, (n \div 256) % 256, n % 256 >>

\* A 32-bit sequence counter is kept as its two 16-bit halves <<high, low>>,
\* so that every number in the model stays below 2^31.
SeqZero == << 0, 0 >>

\* (seq + 1) & 0xffffffff
SeqInc(s) ==
  IF s[2] < 65535 THEN << s[1], s[2] + 1 >>
  ELSE IF s[1] < 65535 THEN << s[1] + 1, 0 >>
  ELSE << 0, 0 >>

\* struct.pack('>I', seq) of a sequence counter
PackSeq(s) == << s[1] \div 256, s[1] % 256, s[2] \div 256, s[2] % 256 >>

\* seq a < seq b, as unsigned 32-bit numbers
SeqLess(a, b) == a[1] < b[1] \/ (a[1] = b[1] /\ a[2] < b[2])

\* struct.unpack('>I', b)[0]
Unpack32(b) == b[1] * 16777216 + b[2] * 65536 + b[3] * 256 + b[4]

\* Python's s[start:stop] (indices from 0, negative ones count from the end,
\* out-of-range ones are clamped).
PySlice(s, start, stop) ==
  LET n == Len(s)
      norm(i) == IF i < 0 THEN (IF i + n < 0 THEN 0 ELSE i + n)
                 ELSE (IF i > n THEN n ELSE i)
      lo == norm(start)
      hi == norm(stop)
  IN  IF lo >= hi THEN <<>> ELSE SubSeq(s, lo + 1, hi)

\* The payloads the runs send: length n, bytes 1, 2, ..., n.
Payload(n) == [i \in 1..n |-> i % 256]
Payloads == { Payload(n) : n \in 0..MaxPayloadLen }

\* ------------------------------------------------- cipher and MAC engines

\* The cipher engines the runs install, and the key each one holds.
CipherEngines == {"cipher1", "cipher2"}
CipherKey(engine) == IF engine = "cipher1" THEN 1 ELSE 2

\* block_engine.encrypt(data) of an installed cipher engine: a keyed,
\* length-preserving byte substitution (the engine adds its key to every byte).
Encrypt(engine, data) ==
  [i \in 1..Len(data) |-> (data[i] + CipherKey(engine)) % 256]

\* mac_engine.digest(key, msg): MacLen bytes that depend on the key and on
\* every byte of msg.
Digest(key, msg) == [i \in 1..MacLen |-> (key + i + Sum(msg)) % 256]

\* mac_engine.digest(key, seq, payload), the three-argument call of
\* send_message: the digest of the packed sequence number and the payload.
DigestSeq(key, seq, payload) == Digest(key, PackSeq(seq) \o payload)

\* The slots the runs install with set_outbound_cipher / set_inbound_cipher.
Slot1 ==
  [block_engine |-> "cipher1", block_size |-> 8, mac_engine |-> "hmac",
   mac_size |-> MacLen, mac_key |-> 1, sdctr |-> FALSE, etm |-> FALSE]
Slot2 ==
  [block_engine |-> "cipher2", block_size |-> 16, mac_engine |-> "hmac",
   mac_size |-> MacLen, mac_key |-> 2, sdctr |-> TRUE, etm |-> TRUE]
Slots == {Slot1, Slot2}

\* -------------------------------------------------------------- the state

VARIABLES
  pk,       \* pk[e]: the fields of Packetizer e
  sock,     \* sock[e]: the bytes waiting in e's socket, written by Peer(e)
  rd,       \* rd[e]: the thread inside e.read_message, if any
  wr,       \* wr[t]: thread t inside A.send_message (threaded specification)
  sc,       \* the thread inside A.set_outbound_cipher (threaded specification)
  sent,     \* sent[e]: history of the frames e wrote to its socket
  got,      \* got[e]: history of the outcomes of e.read_message
  taint,    \* taint[e]: position in sock[e] of a byte altered in transit, or 0
  last,     \* the most recent send_message or need_rekey call and its result
  now,      \* the clock time.time() reads, in whole seconds
  tm,       \* tm[e]: the timer calls made on e and the callbacks seen (history)
  eof,      \* eof[e]: the peer of e has closed the stream
  fed,      \* fed[e]: every byte the peer has written to e's socket (history)
  rl,       \* the thread inside B.readline, if any
  ra,       \* the thread inside B.read_all called on its own, if any
  ul,       \* the caller of deflate_long and inflate_long
  bp,       \* the fields of one BufferedPipe, and the threads waiting on its _cv
  pt,       \* pt[t]: thread t's call on the pipe, and the result of its last call
  bf,       \* the fields of one BufferedFile
  fs,       \* the stream under the BufferedFile, and what its callers did (history)
  hk,       \* the entries of one HostKeys, and the result of the last call on it
  net       \* net[e]: the frame the network last put on e's socket by itself

\* The variables of the BufferedPipe and of the BufferedFile.
pipevars == << bp, pt >>
filevars == << bf, fs >>
latevars == << hk, net >>

\* The variables of the timers, of the raw stream reads and of util.
xvars == << now, tm, eof, fed, rl, ra, ul, pipevars, filevars, latevars >>

\* The variables of the Packetizer, its timers, its raw reads and util.
packetvars ==
  << pk, sock, rd, wr, sc, sent, got, taint, last, now, tm, eof, fed, rl, ra, ul,
     latevars >>

vars == << pk, sock, rd, wr, sc, sent, got, taint, last, xvars >>

\* Packetizer.__init__
NewPacketizer ==
  [ need_rekey_flag |-> FALSE,
    sent_bytes |-> 0, sent_packets |-> 0,
    received_bytes |-> 0, received_packets |-> 0,
    block_size_out |-> 8, block_size_in |-> 8,
    mac_size_out |-> 0, mac_size_in |-> 0,
    block_engine_out |-> None, block_engine_in |-> None,
    sdctr_out |-> FALSE,
    mac_engine_out |-> None, mac_engine_in |-> None,
    mac_key_out |-> 0, mac_key_in |-> 0,
    sequence_number_out |-> SeqZero, sequence_number_in |-> SeqZero,
    etm_out |-> FALSE, etm_in |-> FALSE,
    keepalive_interval |-> 0, keepalive_last |-> 0, keepalive_callback |-> None,
    timer |-> None, handshake_complete |-> FALSE, timer_expired |-> FALSE ]

IdleReader == [pc |-> "idle", n |-> 0, out |-> <<>>, header |-> <<>>, tainted |-> FALSE]
IdleWriter ==
  [pc |-> "idle", calls |-> 0, data |-> <<>>, payload |-> <<>>,
   packet |-> <<>>, seq |-> SeqZero, cipher |-> None, key |-> 0, tmp |-> 0]
IdleSetter == [pc |-> "idle", slot |-> Slot1, calls |-> 0]
NoTimerCalls ==
  [started |-> FALSE, deadline |-> 0, completed |-> FALSE, completed_at |-> 0,
   callbacks |-> 0]
\* readline's timeout argument when it is None.
NoTimeout == -1
IdleLine ==
  [pc |-> "idle", buf |-> <<>>, start |-> 0, timeout |-> NoTimeout,
   base |-> 0, end |-> 0, result |-> None]
IdleAll ==
  [pc |-> "idle", n |-> 0, out |-> <<>>, calls |-> 0, base |-> 0, end |-> 0,
   result |-> None]
IdleUtil == [pc |-> "start", n |-> 0, s |-> <<>>, out |-> 0]

\* The threads that call one BufferedPipe: two readers, a feeder and a
\* controller (set_event, empty, close, read_ready).
PipeReaders == {"r1", "r2"}
PipeThreads == PipeReaders \cup {"f", "c"}

\* BufferedPipe.__init__, with nobody waiting on the condition.
NewPipe ==
  [buffer |-> <<>>, closed |-> FALSE, event |-> None, waiting |-> {}]

\* A thread that has not called the pipe yet.
IdlePipeThread ==
  [pc |-> "idle", op |-> "none", nbytes |-> 0, timed |-> FALSE, late |-> FALSE,
   cond |-> FALSE, calls |-> 0, result |-> "none", data |-> <<>>]

\* BufferedFile.__init__: no mode set yet.
NewFile ==
  [read |-> FALSE, write |-> FALSE, binary |-> FALSE, buffered |-> FALSE,
   line_buffered |-> FALSE, bufsize |-> DEFAULT_BUFSIZE,
   wbuffer |-> <<>>, rbuffer |-> <<>>, pos |-> 0]

\* The subclass under the file and the file's caller: the stream content
\* and how far _read has got, the bytes _write received, the bytes write
\* was called with, the pieces readline returned, the arguments of
\* _set_mode, and the readline call in progress.
NewStream ==
  [content |-> <<>>, at |-> 0, written |-> <<>>, asked |-> <<>>,
   pieces |-> <<>>, flushed |-> FALSE, calls |-> 0, bufsize |-> 0,
   pc |-> "new", size |-> 0, line |-> <<>>, result |-> "none", out |-> <<>>,
   offset |-> 0, whence |-> 0]

\* HostKeys.__init__ with no file name, no call made yet.
NewHostKeys ==
  [entries |-> <<>>, op |-> "none", host |-> "none", result |-> "none",
   keys |-> {}]

\* A new pipe with idle threads, a new file on an empty stream, no host
\* keys, no frame put on a socket by the network.
InitPipeFile ==
  /\ bp = NewPipe
  /\ pt = [t \in PipeThreads |-> IdlePipeThread]
  /\ bf = NewFile
  /\ fs = NewStream
  /\ hk = NewHostKeys
  /\ net = [e \in Engines |-> [frame |-> 0, at |-> 0]]

\* No timer call made, the clock at the time of construction, the streams
\* open and empty, nobody in readline or read_all, no util call made.
InitExtra ==
  /\ now = 0
  /\ tm = [e \in Engines |-> NoTimerCalls]
  /\ eof = [e \in Engines |-> FALSE]
  /\ fed = [e \in Engines |-> <<>>]
  /\ rl = IdleLine
  /\ ra = IdleAll
  /\ ul = IdleUtil
  /\ InitPipeFile

Init ==
  /\ pk = [e \in Engines |-> NewPacketizer]
  /\ sock = [e \in Engines |-> <<>>]
  /\ rd = [e \in Engines |-> IdleReader]
  /\ wr = [t \in Threads |-> IdleWriter]
  /\ sc = IdleSetter
  /\ sent = [e \in Engines |-> <<>>]
  /\ got = [e \in Engines |-> <<>>]
  /\ taint = [e \in Engines |-> 0]
  /\ last = [op |-> "init", on |-> "A", result |-> "none"]
  /\ InitExtra

\* The outbound slot of a Packetizer, as the seven fields set_outbound_cipher sets.
OutSlot(p) ==
  [block_engine |-> p.block_engine_out, block_size |-> p.block_size_out,
   mac_engine |-> p.mac_engine_out, mac_size |-> p.mac_size_out,
   mac_key |-> p.mac_key_out, sdctr |-> p.sdctr_out, etm |-> p.etm_out]

\* The inbound slot of a Packetizer, as the six fields set_inbound_cipher sets.
InSlot(p) ==
  [block_engine |-> p.block_engine_in, block_size |-> p.block_size_in,
   mac_engine |-> p.mac_engine_in, mac_size |-> p.mac_size_in,
   mac_key |-> p.mac_key_in, etm |-> p.etm_in]

\* The part of an outbound slot an inbound slot has to match.
AsInSlot(s) ==
  [block_engine |-> s.block_engine, block_size |-> s.block_size,
   mac_engine |-> s.mac_engine, mac_size |-> s.mac_size,
   mac_key |-> s.mac_key, etm |-> s.etm]

\* ------------------------------------------------------------- operations

\* need_rekey with the thresholds compared by > in place of >=.
need_rekey_strict(p) ==
  \/ p.need_rekey_flag
  \/ p.sent_bytes > REKEY_BYTES
  \/ p.sent_packets > REKEY_PACKETS

\* Packetizer.need_rekey
need_rekey(p) ==
  \/ p.need_rekey_flag
  \/ p.sent_bytes >= REKEY_BYTES
  \/ p.sent_packets >= REKEY_PACKETS

\* set_outbound_cipher that stores the MAC key in both directions.
WithOutSlotBothKeys(p, s) ==
  [p EXCEPT !.block_engine_out = s.block_engine,
            !.block_size_out = s.block_size,
            !.mac_engine_out = s.mac_engine,
            !.mac_size_out = s.mac_size,
            !.mac_key_out = s.mac_key,
            !.mac_key_in = s.mac_key,
            !.sdctr_out = s.sdctr,
            !.etm_out = s.etm]

\* The fields of p after set_outbound_cipher(s.block_engine, ..., s.etm).
WithOutSlot(p, s) ==
  [p EXCEPT !.block_engine_out = s.block_engine,
            !.block_size_out = s.block_size,
            !.mac_engine_out = s.mac_engine,
            !.mac_size_out = s.mac_size,
            !.mac_key_out = s.mac_key,
            !.sdctr_out = s.sdctr,
            !.etm_out = s.etm]

\* The fields of p after set_inbound_cipher(s.block_engine, ..., s.etm).
WithInSlot(p, s) ==
  [p EXCEPT !.block_engine_in = s.block_engine,
            !.block_size_in = s.block_size,
            !.mac_engine_in = s.mac_engine,
            !.mac_size_in = s.mac_size,
            !.mac_key_in = s.mac_key,
            !.etm_in = s.etm]

\* e.set_outbound_cipher(...), called by the thread that drives e's sends.
set_outbound_cipher(e, s) ==
  /\ pk' = [pk EXCEPT ![e] = WithOutSlot(pk[e], s)]
  /\ UNCHANGED << sock, rd, wr, sc, sent, got, taint, last, xvars >>

\* e.set_inbound_cipher(...), called by the thread that drives e's reads,
\* between two read_message calls.
set_inbound_cipher(e, s) ==
  /\ rd[e].pc = "idle"
  /\ pk' = [pk EXCEPT ![e] = WithInSlot(pk[e], s)]
  /\ UNCHANGED << sock, rd, wr, sc, sent, got, taint, last, xvars >>

\* The frame send_message builds from data under the fields of p
\* (packet.py lines 197-199).
BuildPacket(p, data) ==
  LET payload == Encrypt(p.block_engine_out, data)
      mac == DigestSeq(p.mac_key_out, p.sequence_number_out, payload)
  IN  Pack32(Len(payload)) \o payload \o mac

\* What the history keeps of a frame written to the socket.
FrameRecord(data, packet, seq, cipher, key, slot) ==
  [data |-> data, packet |-> packet, seq |-> seq, cipher |-> cipher,
   key |-> key, slot |-> slot]

\* e.send_message(data), run by one thread from call to return.  With no
\* cipher or no MAC engine installed the attribute access on None raises.
send_message(e, data) ==
  LET p == pk[e] IN
  IF p.block_engine_out = None \/ p.mac_engine_out = None
  THEN /\ last' = [op |-> "send_message", on |-> e, result |-> "AttributeError"]
       /\ UNCHANGED << pk, sock, rd, wr, sc, sent, got, taint, xvars >>
  ELSE LET packet == BuildPacket(p, data) IN
       /\ Len(sent[e]) < MaxFrames
       /\ pk' = [pk EXCEPT
                   ![e].sequence_number_out = SeqInc(p.sequence_number_out),
                   ![e].sent_bytes = p.sent_bytes + Len(packet),
                   ![e].sent_packets = p.sent_packets + 1]
       /\ sock' = [sock EXCEPT ![Peer(e)] = @ \o packet]
       /\ sent' = [sent EXCEPT ![e] = Append(@,
                     FrameRecord(data, packet, p.sequence_number_out,
                                 p.block_engine_out, p.mac_key_out, OutSlot(p)))]
       /\ last' = [op |-> "send_message", on |-> e, result |-> "ok"]
       /\ UNCHANGED << rd, wr, sc, got, taint, xvars >>

\* What the history keeps of a finished read_message call: how it ended
\* ("ok", "rekey" = NeedRekeyException, "blocking" = Invalid packet blocking,
\* "mac" = Mismatched MAC), the payload it returned, the bytes it had taken
\* from the socket, whether an altered byte was among them, and the inbound
\* slot it ran under.
Outcome(kind, payload, taken, tainted, slot) ==
  [kind |-> kind, payload |-> payload, taken |-> taken, tainted |-> tainted,
   slot |-> slot]

\* packet.py lines 214-218, after read_all returned the header: the number of
\* body bytes to read, or -1 for 'Invalid packet blocking'.
BodyLength(p, header) ==
  LET packet_size == Unpack32(PySlice(header, 0, 4))
      leftover == PySlice(header, 4, Len(header))
  IN  IF (packet_size - Len(leftover)) % p.block_size_in # 0
      THEN -1
      ELSE packet_size + p.mac_size_in - Len(leftover)

\* packet.py lines 219-220: the packet and the MAC cut out of header and body.
PacketOf(p, header, buf) ==
  PySlice(header, 4, Len(header)) \o PySlice(buf, 0, 0 - p.mac_size_in)
MacOf(p, buf) == PySlice(buf, 0 - p.mac_size_in, Len(buf))

\* A MAC check that lets every frame through.
MacAcceptsAny(p, header, buf) == TRUE

\* packet.py lines 221-225: TRUE when the MAC check lets the frame through.
MacAccepts(p, header, buf) ==
  \/ p.mac_size_in = 0
  \/ Digest(p.mac_key_in, PackSeq(p.sequence_number_in) \o PacketOf(p, header, buf))
       = MacOf(p, buf)

\* packet.py lines 226-227: the payload read_message cuts out of the packet.
PayloadOf(p, header, buf) ==
  LET packet_size == Unpack32(PySlice(header, 0, 4))
      packet == PacketOf(p, header, buf)
      padding == packet[1]
  IN  PySlice(packet, 1, packet_size - padding)

\* Lines 228-230 with the length field left out of the byte count.
ReceivedLessLength(p, header) ==
  LET packet_size == Unpack32(PySlice(header, 0, 4))
  IN  [p EXCEPT !.sequence_number_in = SeqInc(p.sequence_number_in),
                !.received_bytes = p.received_bytes + packet_size + p.mac_size_in,
                !.received_packets = p.received_packets + 1]

\* packet.py lines 228-230: the counters after a frame passed the MAC check.
Received(p, header) ==
  LET packet_size == Unpack32(PySlice(header, 0, 4))
  IN  [p EXCEPT !.sequence_number_in = SeqInc(p.sequence_number_in),
                !.received_bytes = p.received_bytes + packet_size + p.mac_size_in + 4,
                !.received_packets = p.received_packets + 1]

\* read_message ends with this outcome: the history and the idle reader.
Finish(e, o) ==
  /\ got' = [got EXCEPT ![e] = Append(@, o)]
  /\ rd' = [rd EXCEPT ![e] = IdleReader]

\* packet.py lines 219-233, once header and body are read.
FinishBody(e, header, buf, tainted) ==
  LET p == pk[e] IN
  IF ~MacAccepts(p, header, buf)
  THEN /\ Finish(e, Outcome("mac", <<>>, header \o buf, tainted, InSlot(p)))
       /\ UNCHANGED pk
  ELSE /\ pk' = [pk EXCEPT ![e] = Received(p, header)]
       /\ IF need_rekey(Received(p, header))
          THEN Finish(e, Outcome("rekey", <<>>, header \o buf, tainted, InSlot(p)))
          ELSE Finish(e, Outcome("ok", PayloadOf(p, header, buf), header \o buf,
                                 tainted, InSlot(p)))

\* packet.py lines 213-218 (and read_all's lines 174-175), once the header is read.
FinishHeader(e, header, tainted) ==
  LET p == pk[e]
      n == BodyLength(p, header)
  IN  IF need_rekey(p)
      THEN /\ Finish(e, Outcome("rekey", <<>>, header, tainted, InSlot(p)))
           /\ UNCHANGED pk
      ELSE IF n = -1
      THEN /\ Finish(e, Outcome("blocking", <<>>, header, tainted, InSlot(p)))
           /\ UNCHANGED pk
      ELSE IF n <= 0
      THEN FinishBody(e, header, <<>>, tainted)
      ELSE /\ rd' = [rd EXCEPT ![e] = [pc |-> "body", n |-> n, out |-> <<>>,
                                       header |-> header, tainted |-> tainted]]
           /\ UNCHANGED << pk, got >>

\* The sizes self.__socket.recv(want) returns with avail bytes waiting: the
\* loopback socket hands over what it has, up to what is asked for.
RecvSizes(want, avail) == { Min(want, avail) }

\* One self.__socket.recv of the thread in e.read_message (a call of
\* read_message starts with its first recv), and the code that follows when
\* read_all has its n bytes.
recv(e) ==
  LET r == rd[e]
      stage == IF r.pc = "idle" THEN "header" ELSE r.pc
      n == IF r.pc = "idle" THEN pk[e].block_size_in ELSE r.n
  IN  /\ sock[e] # <<>>
      /\ \E k \in RecvSizes(n - Len(r.out), Len(sock[e])) :
           LET out == r.out \o SubSeq(sock[e], 1, k)
               tainted == r.tainted \/ (taint[e] >= 1 /\ taint[e] <= k)
           IN  /\ sock' = [sock EXCEPT ![e] = SubSeq(@, k + 1, Len(@))]
               /\ taint' = [taint EXCEPT ![e] = IF @ > k THEN @ - k ELSE 0]
               /\ IF Len(out) < n
                  THEN /\ rd' = [rd EXCEPT ![e] = [r EXCEPT !.pc = stage, !.n = n,
                                                   !.out = out, !.tainted = tainted]]
                       /\ UNCHANGED << pk, got >>
                  ELSE IF stage = "header"
                  THEN FinishHeader(e, out, tainted)
                  ELSE FinishBody(e, r.header, out, tainted)
      /\ UNCHANGED << wr, sc, sent, last, xvars >>

\* The byte an alteration in transit puts in place of byte b.
Altered(b, delta) == (b + delta) % 256
AlterDeltas == {1, 8}

\* One byte of a frame is altered between the sender's write and the
\* receiver's first read of it (at most once in a run).
corrupt(e) ==
  /\ rd[e].pc = "idle"
  /\ taint[e] = 0
  /\ \A i \in 1..Len(got[e]) : ~got[e][i].tainted
  /\ sent[Peer(e)] # <<>>
  /\ sock[e] = sent[Peer(e)][Len(sent[Peer(e)])].packet
  /\ \E i \in 1..Len(sock[e]), delta \in AlterDeltas :
       /\ sock' = [sock EXCEPT ![e][i] = Altered(@, delta)]
       /\ taint' = [taint EXCEPT ![e] = i]
  /\ UNCHANGED << pk, rd, wr, sc, sent, got, last, xvars >>

Next ==
  \/ \E e \in Senders, s \in Slots : set_outbound_cipher(e, s)
  \/ \E e \in Readers, s \in Slots : set_inbound_cipher(e, s)
  \/ \E e \in Senders, data \in Payloads : send_message(e, data)
  \/ \E e \in Readers : recv(e)
  \/ \E e \in Readers : corrupt(e)

Spec == Init /\ [][Next]_vars

\* ------------------------------------------- a long-running connection

\* The state of a connection keyed with Slot1 in both directions on which B
\* has already written one frame of REKEY_BYTES - 1 bytes, which A has taken
\* off its socket with read_all.
InitLong ==
  /\ pk = [e \in Engines |->
             IF e = "B"
             THEN [WithInSlot(WithOutSlot(NewPacketizer, Slot1), AsInSlot(Slot1)) EXCEPT
                     !.sequence_number_out = SeqInc(SeqZero),
                     !.sent_packets = 1,
                     !.sent_bytes = REKEY_BYTES - 1]
             ELSE WithInSlot(WithOutSlot(NewPacketizer, Slot1), AsInSlot(Slot1))]
  /\ sock = [e \in Engines |-> <<>>]
  /\ rd = [e \in Engines |-> IdleReader]
  /\ wr = [t \in Threads |-> IdleWriter]
  /\ sc = IdleSetter
  /\ sent = [e \in Engines |-> <<>>]
  /\ got = [e \in Engines |-> <<>>]
  /\ taint = [e \in Engines |-> 0]
  /\ last = [op |-> "init", on |-> "A", result |-> "none"]
  /\ InitExtra

\* Both engines send; B reads what A sends.
NextLong ==
  \/ \E e \in Engines, data \in Payloads : send_message(e, data)
  \/ \E e \in Readers : recv(e)

SpecLong == InitLong /\ [][NextLong]_vars

\* ------------------------------------------------ need_rekey on its own

\* The counter values around the rekey threshold.
RekeyProbe == {0, REKEY_BYTES - 1, REKEY_BYTES, REKEY_BYTES + 1}

\* Engine A with its rekey flag and its four counters drawn from the probe values.
InitRekey ==
  /\ \E flag \in BOOLEAN, sb \in RekeyProbe, sp \in RekeyProbe,
        rb \in RekeyProbe, rp \in RekeyProbe :
       pk = [e \in Engines |->
               IF e = "A"
               THEN [NewPacketizer EXCEPT !.need_rekey_flag = flag,
                                          !.sent_bytes = sb, !.sent_packets = sp,
                                          !.received_bytes = rb, !.received_packets = rp]
               ELSE NewPacketizer]
  /\ sock = [e \in Engines |-> <<>>]
  /\ rd = [e \in Engines |-> IdleReader]
  /\ wr = [t \in Threads |-> IdleWriter]
  /\ sc = IdleSetter
  /\ sent = [e \in Engines |-> <<>>]
  /\ got = [e \in Engines |-> <<>>]
  /\ taint = [e \in Engines |-> 0]
  /\ last = [op |-> "init", on |-> "A", result |-> "none"]
  /\ InitExtra

\* A call of e.need_rekey(): the result is kept in last.
need_rekey_call(e) ==
  /\ last' = [op |-> "need_rekey", on |-> e,
              result |-> IF need_rekey(pk[e]) THEN "True" ELSE "False"]
  /\ UNCHANGED << pk, sock, rd, wr, sc, sent, got, taint, xvars >>

NextRekey == \E e \in Engines : need_rekey_call(e)

SpecRekey == InitRekey /\ [][NextRekey]_vars

\* ------------------------------------------ threads inside one Packetizer

\* A with Slot1 installed as its outbound slot, before any thread calls it.
InitThreads ==
  /\ pk = [e \in Engines |->
             IF e = "A" THEN WithOutSlot(NewPacketizer, Slot1) ELSE NewPacketizer]
  /\ sock = [e \in Engines |-> <<>>]
  /\ rd = [e \in Engines |-> IdleReader]
  /\ wr = [t \in Threads |-> IdleWriter]
  /\ sc = IdleSetter
  /\ sent = [e \in Engines |-> <<>>]
  /\ got = [e \in Engines |-> <<>>]
  /\ taint = [e \in Engines |-> 0]
  /\ last = [op |-> "init", on |-> "A", result |-> "none"]
  /\ InitExtra

\* Thread t calls A.send_message(data) and runs line 197.
send_encrypt(t, data) ==
  LET w == wr[t]
      p == pk["A"]
  IN  /\ w.pc = "idle"
      /\ w.calls < MaxThreadSends
      /\ IF p.block_engine_out = None
         THEN /\ wr' = [wr EXCEPT ![t].calls = w.calls + 1]
              /\ last' = [op |-> "send_message", on |-> "A", result |-> "AttributeError"]
         ELSE /\ wr' = [wr EXCEPT ![t] = [w EXCEPT !.pc = "L198", !.calls = w.calls + 1,
                                            !.data = data,
                                            !.payload = Encrypt(p.block_engine_out, data),
                                            !.cipher = p.block_engine_out]]
              /\ UNCHANGED last
      /\ UNCHANGED << pk, sock, rd, sc, sent, got, taint, xvars >>

\* Thread t runs lines 198-199: the MAC over the current sequence number,
\* and the packet.
send_mac(t) ==
  LET w == wr[t]
      p == pk["A"]
  IN  /\ w.pc = "L198"
      /\ IF p.mac_engine_out = None
         THEN /\ wr' = [wr EXCEPT ![t] = [IdleWriter EXCEPT !.calls = w.calls]]
              /\ last' = [op |-> "send_message", on |-> "A", result |-> "AttributeError"]
         ELSE /\ wr' = [wr EXCEPT ![t] =
                          [w EXCEPT !.pc = "L200",
                                    !.seq = p.sequence_number_out,
                                    !.key = p.mac_key_out,
                                    !.packet = Pack32(Len(w.payload)) \o w.payload \o
                                      DigestSeq(p.mac_key_out, p.sequence_number_out,
                                                w.payload)]]
              /\ UNCHANGED last
      /\ UNCHANGED << pk, sock, rd, sc, sent, got, taint, xvars >>

\* Thread t runs line 200: the sequence counter moves on.
send_seq(t) ==
  /\ wr[t].pc = "L200"
  /\ pk' = [pk EXCEPT !["A"].sequence_number_out = SeqInc(@)]
  /\ wr' = [wr EXCEPT ![t].pc = "L201"]
  /\ UNCHANGED << sock, rd, sc, sent, got, taint, last, xvars >>

\* Thread t runs line 201: sendall hands the packet to the socket.
send_write(t) ==
  LET w == wr[t] IN
  /\ w.pc = "L201"
  /\ sock' = [sock EXCEPT !["B"] = @ \o w.packet]
  /\ sent' = [sent EXCEPT !["A"] = Append(@,
                FrameRecord(w.data, w.packet, w.seq, w.cipher, w.key, OutSlot(pk["A"])))]
  /\ wr' = [wr EXCEPT ![t].pc = "L202"]
  /\ UNCHANGED << pk, rd, sc, got, taint, last, xvars >>

\* Thread t runs lines 202-203 and returns.
send_count(t) ==
  LET w == wr[t] IN
  /\ w.pc = "L202"
  /\ pk' = [pk EXCEPT !["A"].sent_bytes = @ + Len(w.packet),
                      !["A"].sent_packets = @ + 1]
  /\ wr' = [wr EXCEPT ![t] = [IdleWriter EXCEPT !.calls = w.calls]]
  /\ last' = [op |-> "send_message", on |-> "A", result |-> "ok"]
  /\ UNCHANGED << sock, rd, sc, sent, got, taint, xvars >>

\* The fields of p after the assignment at the given line of set_outbound_cipher.
AssignOut(p, line, s) ==
  CASE line = "L83" -> [p EXCEPT !.block_engine_out = s.block_engine]
    [] line = "L84" -> [p EXCEPT !.block_size_out = s.block_size]
    [] line = "L85" -> [p EXCEPT !.mac_engine_out = s.mac_engine]
    [] line = "L86" -> [p EXCEPT !.mac_size_out = s.mac_size]
    [] line = "L87" -> [p EXCEPT !.mac_key_out = s.mac_key]
    [] line = "L88" -> [p EXCEPT !.sdctr_out = s.sdctr]
    [] line = "L89" -> [p EXCEPT !.etm_out = s.etm]

\* The line after the given line of set_outbound_cipher ("idle": it returns).
LineAfter(line) ==
  CASE line = "L83" -> "L84" [] line = "L84" -> "L85" [] line = "L85" -> "L86"
    [] line = "L86" -> "L87" [] line = "L87" -> "L88" [] line = "L88" -> "L89"
    [] line = "L89" -> "idle"

\* A thread calls A.set_outbound_cipher with slot s and runs line 83.
set_outbound_call(s) ==
  /\ sc.pc = "idle"
  /\ sc.calls < MaxInstalls
  /\ pk' = [pk EXCEPT !["A"] = AssignOut(@, "L83", s)]
  /\ sc' = [pc |-> "L84", slot |-> s, calls |-> sc.calls + 1]
  /\ UNCHANGED << sock, rd, wr, sent, got, taint, last, xvars >>

\* The thread in set_outbound_cipher runs its next line.
set_outbound_line ==
  /\ sc.pc # "idle"
  /\ pk' = [pk EXCEPT !["A"] = AssignOut(@, sc.pc, sc.slot)]
  /\ sc' = [sc EXCEPT !.pc = LineAfter(sc.pc)]
  /\ UNCHANGED << sock, rd, wr, sent, got, taint, last, xvars >>

NextThreads ==
  \/ \E t \in Threads, data \in Payloads : send_encrypt(t, data)
  \/ \E t \in Threads : send_mac(t)
  \/ \E t \in Threads : send_seq(t)
  \/ \E t \in Threads : send_write(t)
  \/ \E t \in Threads : send_count(t)
  \/ \E s \in Slots : set_outbound_call(s)
  \/ set_outbound_line

SpecThreads == InitThreads /\ [][NextThreads]_vars

\* ------------------------------------------------- handshake timer, clock

\* One second passes on the clock time.time() reads.
tick ==
  /\ now < MaxTime
  /\ now' = now + 1
  /\ UNCHANGED << pk, sock, rd, wr, sc, sent, got, taint, last,
                  tm, eof, fed, rl, ra, ul, pipevars, filevars, latevars >>

\* handshake_timed_out with its test of the completion flag turned around.
handshake_timed_out_flipped(p) == (~p.timer_expired) /\ p.handshake_complete

\* handshake_timed_out without its test of the timer.
handshake_timed_out_eager(p) == ~p.handshake_complete

\* The value e.handshake_timed_out() returns.
handshake_timed_out(p) == p.timer_expired /\ ~p.handshake_complete

\* e.start_handshake(timeout).  The flag is cleared; the next line reads
\* self.__handshake_timed_out, a name the class does not define, so the call
\* raises AttributeError before a Timer is made or started.
start_handshake(e, timeout) ==
  /\ pk' = [pk EXCEPT ![e].handshake_complete = FALSE]
  /\ last' = [op |-> "start_handshake", on |-> e, result |-> "AttributeError"]
  /\ tm' = [tm EXCEPT ![e].started = TRUE, ![e].deadline = now + timeout,
                      ![e].completed = FALSE]
  /\ UNCHANGED << sock, rd, wr, sc, sent, got, taint, now, eof, fed, rl, ra, ul, pipevars, filevars, latevars >>

\* e.complete_handshake().  self.__timer is None, there is nothing to cancel.
complete_handshake(e) ==
  /\ pk' = [pk EXCEPT ![e].handshake_complete = TRUE]
  /\ last' = [op |-> "complete_handshake", on |-> e, result |-> "ok"]
  /\ tm' = [tm EXCEPT ![e].completed = TRUE, ![e].completed_at = now]
  /\ UNCHANGED << sock, rd, wr, sc, sent, got, taint, now, eof, fed, rl, ra, ul, pipevars, filevars, latevars >>

\* A call of e.handshake_timed_out(): the result is kept in last.
handshake_timed_out_call(e) ==
  /\ last' = [op |-> "handshake_timed_out", on |-> e,
              result |-> IF handshake_timed_out(pk[e]) THEN "True" ELSE "False"]
  /\ UNCHANGED << pk, sock, rd, wr, sc, sent, got, taint, xvars >>

NextHandshake ==
  \/ tick
  \/ \E e \in Engines, timeout \in 1..MaxTimeout : start_handshake(e, timeout)
  \/ \E e \in Engines : complete_handshake(e)
  \/ \E e \in Engines : handshake_timed_out_call(e)

SpecHandshake == Init /\ [][NextHandshake]_vars

\* ----------------------------------------------------------- keepalive

\* e.set_keepalive(interval, callback).
set_keepalive(e, interval, callback) ==
  /\ pk' = [pk EXCEPT ![e].keepalive_interval = interval,
                      ![e].keepalive_callback = callback,
                      ![e].keepalive_last = now]
  /\ UNCHANGED << sock, rd, wr, sc, sent, got, taint, last, xvars >>

\* A connection keyed with Slot1 in both directions, at the time of construction.
InitKeepalive ==
  /\ pk = [e \in Engines |->
             WithInSlot(WithOutSlot(NewPacketizer, Slot1), AsInSlot(Slot1))]
  /\ sock = [e \in Engines |-> <<>>]
  /\ rd = [e \in Engines |-> IdleReader]
  /\ wr = [t \in Threads |-> IdleWriter]
  /\ sc = IdleSetter
  /\ sent = [e \in Engines |-> <<>>]
  /\ got = [e \in Engines |-> <<>>]
  /\ taint = [e \in Engines |-> 0]
  /\ last = [op |-> "init", on |-> "A", result |-> "none"]
  /\ InitExtra

\* Time passes, a keepalive is set on either engine, A sends, B reads.
NextKeepalive ==
  \/ tick
  \/ \E e \in Engines, interval \in 0..MaxInterval : set_keepalive(e, interval, "callback")
  \/ \E e \in Senders, data \in Payloads : send_message(e, data)
  \/ \E e \in Readers : recv(e)

SpecKeepalive == InitKeepalive /\ [][NextKeepalive]_vars

\* ------------------------------------------- readline, read_all, the stream

\* b'\n', and the byte values the peer writes to the raw stream.
Newline == 10
StreamBytes == {Newline, 1, 2}

\* How many bytes reads have taken from e's socket so far.
Consumed(e) == Len(fed[e]) - Len(sock[e])

\* The peer of e writes one byte to the stream.
feed(e, b) ==
  /\ ~eof[e]
  /\ Len(fed[e]) < MaxStream
  /\ sock' = [sock EXCEPT ![e] = Append(@, b)]
  /\ fed' = [fed EXCEPT ![e] = Append(@, b)]
  /\ UNCHANGED << pk, rd, wr, sc, sent, got, taint, last, now, tm, eof, rl, ra, ul, pipevars, filevars, latevars >>

\* The peer of e closes the stream: recv returns b'' once the socket is drained.
close(e) ==
  /\ ~eof[e]
  /\ eof' = [eof EXCEPT ![e] = TRUE]
  /\ UNCHANGED << pk, sock, rd, wr, sc, sent, got, taint, last, now, tm, fed, rl, ra, ul, pipevars, filevars, latevars >>

\* buf.endswith(b'\n')
EndsWithNewline(buf) == buf # <<>> /\ buf[Len(buf)] = Newline

\* The test that ends readline with socket.timeout.
TimedOut(timeout, start) == timeout # NoTimeout /\ now - start > timeout

\* B.readline(timeout) is called: buf = bytes(), start = time.time().
readline_call(e, timeout) ==
  /\ rl.pc = "idle" /\ ra.pc = "idle"
  /\ rl' = [pc |-> "recv", buf |-> <<>>, start |-> now, timeout |-> timeout,
            base |-> Consumed(e), end |-> 0, result |-> None]
  /\ UNCHANGED << pk, sock, rd, wr, sc, sent, got, taint, last, now, tm, eof, fed, ra, ul, pipevars, filevars, latevars >>

\* buf + the bytes of one recv.
Extend(buf, got_bytes) == buf \o got_bytes

\* How many bytes a recv(2) would return.
LineRecvSizeTwo(avail) == Min(2, avail)

\* How many bytes self.__socket.recv(1) returns with avail bytes waiting.
LineRecvSize(avail) == Min(1, avail)

\* One turn of readline's loop: self.__socket.recv(1) returns (one byte, or
\* b'' on a closed stream; on an open empty stream the call blocks), then the
\* newline test, then the timeout test.
readline_recv(e) ==
  /\ rl.pc = "recv"
  /\ sock[e] # <<>> \/ eof[e]
  /\ LET k == LineRecvSize(Len(sock[e]))
         buf == Extend(rl.buf, SubSeq(sock[e], 1, k))
     IN  /\ sock' = [sock EXCEPT ![e] = SubSeq(@, k + 1, Len(@))]
         /\ rl' = IF EndsWithNewline(buf)
                  THEN [rl EXCEPT !.pc = "idle", !.buf = buf, !.result = "ok",
                                  !.end = Consumed(e) + k]
                  ELSE IF TimedOut(rl.timeout, rl.start)
                  THEN [rl EXCEPT !.pc = "idle", !.buf = buf, !.result = "timeout",
                                  !.end = Consumed(e) + k]
                  ELSE [rl EXCEPT !.buf = buf]
  /\ UNCHANGED << pk, rd, wr, sc, sent, got, taint, last, now, tm, eof, fed, ra, ul, pipevars, filevars, latevars >>

\* A loop test that stops one byte early.
ReadMoreShort(out, n) == Len(out) < n - 1

\* while len(out) < n
ReadMore(out, n) == Len(out) < n

\* B.read_all(n) is called on its own (check_rekey=False): out = bytes().
\* With n = 0 the loop is not entered and the call returns b''.
read_all_call(e, n) ==
  /\ rl.pc = "idle" /\ ra.pc = "idle"
  /\ ra' = IF ReadMore(<<>>, n)
           THEN [pc |-> "recv", n |-> n, out |-> <<>>, calls |-> 0,
                 base |-> Consumed(e), end |-> 0, result |-> None]
           ELSE [pc |-> "idle", n |-> n, out |-> <<>>, calls |-> 0,
                 base |-> Consumed(e), end |-> Consumed(e), result |-> "ok"]
  /\ UNCHANGED << pk, sock, rd, wr, sc, sent, got, taint, last, now, tm, eof, fed, rl, ul, pipevars, filevars, latevars >>

\* The sizes self.__socket.recv(want) may return on a stream that holds
\* avail >= 1 bytes: any part of what is there, up to what is asked for.
StreamRecvSizes(want, avail) == 1..Min(want, avail)

\* One turn of read_all's loop: recv(n - len(out)) returns some bytes, or b''
\* on a closed and drained stream, which raises EOFError.
read_all_recv(e) ==
  /\ ra.pc = "recv"
  /\ IF sock[e] = <<>>
     THEN /\ eof[e]
          /\ ra' = [ra EXCEPT !.pc = "idle", !.result = "EOFError",
                              !.calls = @ + 1, !.end = Consumed(e)]
          /\ UNCHANGED sock
     ELSE \E k \in StreamRecvSizes(ra.n - Len(ra.out), Len(sock[e])) :
            LET out == Extend(ra.out, SubSeq(sock[e], 1, k)) IN
            /\ sock' = [sock EXCEPT ![e] = SubSeq(@, k + 1, Len(@))]
            /\ ra' = IF ReadMore(out, ra.n)
                     THEN [ra EXCEPT !.out = out, !.calls = @ + 1]
                     ELSE [ra EXCEPT !.pc = "idle", !.out = out, !.result = "ok",
                                     !.calls = @ + 1, !.end = Consumed(e) + k]
  /\ UNCHANGED << pk, rd, wr, sc, sent, got, taint, last, now, tm, eof, fed, rl, ul, pipevars, filevars, latevars >>

\* The peer writes and closes; B calls readline (without a timeout) and
\* read_all one after the other.
NextStream ==
  \/ \E e \in Readers, b \in StreamBytes : feed(e, b)
  \/ \E e \in Readers : close(e)
  \/ \E e \in Readers : readline_call(e, NoTimeout)
  \/ \E e \in Readers : readline_recv(e)
  \/ \E e \in Readers, n \in 0..MaxRead : read_all_call(e, n)
  \/ \E e \in Readers : read_all_recv(e)

SpecStream == Init /\ [][NextStream]_vars

\* The same, with the thread in readline or read_all going on running: a
\* recv that can return does return.
SpecStreamFair ==
  /\ SpecStream
  /\ WF_vars(\E e \in Readers : readline_recv(e))
  /\ WF_vars(\E e \in Readers : read_all_recv(e))

\* The peer writes and closes, time passes, B calls readline with and
\* without a timeout.
NextReadline ==
  \/ \E e \in Readers, b \in StreamBytes : feed(e, b)
  \/ \E e \in Readers : close(e)
  \/ tick
  \/ \E e \in Readers, timeout \in {NoTimeout} \cup (1..MaxTimeout) : readline_call(e, timeout)
  \/ \E e \in Readers : readline_recv(e)

SpecReadline == Init /\ [][NextReadline]_vars

\* ------------------------------------------ util: deflate_long, inflate_long

\* paramiko.common.zero_byte and max_byte.
zero_byte == << 0 >>
max_byte == << 255 >>

\* struct.pack('>I', n & xffffffff): the low 32 bits of n, high byte first.
Word32(n) ==
  << (n \div 16777216) % 256, (n \div 65536) % 256, (n \div 256) % 256, n % 256 >>

\* n >> 32
Shift32(n) == (n \div 65536) \div 65536

\* deflate_long lines 36-38: the 32-bit words of n, until 0 or -1 is left.
RECURSIVE Words(_)
Words(n) ==
  IF n = 0 \/ n = -1 THEN <<>> ELSE Words(Shift32(n)) \o Word32(n)

\* What is left of n when that loop ends.
SignOf(n) == IF n < 0 THEN -1 ELSE 0

\* s[i] != '\000' and s[i] != '\xff' of line 41: s[i] is an int and the
\* right-hand sides are one-character str objects, which no int equals.
DiffersFromChar(b, c) == TRUE

\* deflate_long lines 40-42: the index at which the for loop breaks, or -1
\* when it runs to its end (the else branch).
RECURSIVE BreakIndex(_, _)
BreakIndex(s, i) ==
  IF i >= Len(s) THEN -1
  ELSE IF DiffersFromChar(s[i + 1], 0) /\ DiffersFromChar(s[i + 1], 255) THEN i
  ELSE BreakIndex(s, i + 1)

\* deflate_long(n), add_sign_padding=True.
deflate_long(n) ==
  LET words == Words(n)
      sign == SignOf(n)
      i == BreakIndex(words, 0)
      cut == IF i = -1
             THEN PySlice(zero_byte, IF sign = 0 THEN 0 ELSE 1, Len(zero_byte))
             ELSE PySlice(words, i, Len(words))
      zeroed == IF sign = 0 /\ Len(cut) > 0 /\ cut[1] >= 128
                THEN zero_byte \o cut ELSE cut
  IN  IF sign < 0 /\ Len(zeroed) > 0 /\ zeroed[1] < 128
      THEN max_byte \o zeroed ELSE zeroed

\* inflate_long lines 19-21: s filled with zero bytes to a multiple of 4.
Filled(s) ==
  IF Len(s) % 4 # 0 THEN [i \in 1..(4 - (Len(s) % 4)) |-> 0] \o s ELSE s

\* inflate_long lines 22-23: the number the bytes of s spell, high byte first.
RECURSIVE Unsigned(_)
Unsigned(s) ==
  IF s = <<>> THEN 0
  ELSE 256 * Unsigned(SubSeq(s, 1, Len(s) - 1)) + s[Len(s)]

\* (1 << (8 * len(s))) - out of line 25, for out = Unsigned(s): every byte
\* subtracted from 255 spells (1 << (8 * len(s))) - 1 - out.
Complement(s) == Unsigned([i \in 1..Len(s) |-> 255 - s[i]]) + 1

\* inflate_long(s), always_positive=False.
inflate_long(s) ==
  LET negative == Len(s) > 0 /\ s[1] >= 128
      filled == Filled(s)
  IN  IF negative
      THEN (IF Complement(filled) = 0 THEN -1 ELSE Complement(filled))
      ELSE Unsigned(filled)

\* Integers around the byte and word boundaries, beyond -MaxLong..MaxLong.
LongProbes ==
  { 32767, 32768, -32768, -32769, 8388607, 8388608, -8388608, -8388609,
    2147483647, -2147483647 }

\* A caller about to deflate an integer of the range or one of the probes.
InitUtil ==
  /\ pk = [e \in Engines |-> NewPacketizer]
  /\ sock = [e \in Engines |-> <<>>]
  /\ rd = [e \in Engines |-> IdleReader]
  /\ wr = [t \in Threads |-> IdleWriter]
  /\ sc = IdleSetter
  /\ sent = [e \in Engines |-> <<>>]
  /\ got = [e \in Engines |-> <<>>]
  /\ taint = [e \in Engines |-> 0]
  /\ last = [op |-> "init", on |-> "A", result |-> "none"]
  /\ now = 0
  /\ tm = [e \in Engines |-> NoTimerCalls]
  /\ eof = [e \in Engines |-> FALSE]
  /\ fed = [e \in Engines |-> <<>>]
  /\ rl = IdleLine
  /\ ra = IdleAll
  /\ \E n \in ((0 - MaxLong)..MaxLong) \cup LongProbes :
       ul = [IdleUtil EXCEPT !.n = n]
  /\ InitPipeFile

\* s = deflate_long(n)
deflate_call ==
  /\ ul.pc = "start"
  /\ ul' = [ul EXCEPT !.pc = "deflated", !.s = deflate_long(ul.n)]
  /\ UNCHANGED << pk, sock, rd, wr, sc, sent, got, taint, last,
                  now, tm, eof, fed, rl, ra, pipevars, filevars, latevars >>

\* out = inflate_long(s)
inflate_call ==
  /\ ul.pc = "deflated"
  /\ ul' = [ul EXCEPT !.pc = "inflated", !.out = inflate_long(ul.s)]
  /\ UNCHANGED << pk, sock, rd, wr, sc, sent, got, taint, last,
                  now, tm, eof, fed, rl, ra, pipevars, filevars, latevars >>

NextUtil == deflate_call \/ inflate_call

SpecUtil == InitUtil /\ [][NextUtil]_vars

\* ------------------------------------------------------- buffered_pipe.py
\* One BufferedPipe used by several threads.  A block under `with self._lock`
\* is one step; the event calls that feed and close make after releasing the
\* lock, and the unlocked lines of set_event, are steps of their own.

\* threading.Condition.notify(): one of the waiting threads, if any, leaves
\* the wait; it goes on when it gets the lock back.
notify(waiting, woken) ==
  IF waiting = {} THEN woken = {} ELSE \E w \in waiting : woken = {w}

\* The threads records after a notify that woke `woken`.
Wake(threads, woken) ==
  [t \in PipeThreads |->
     IF t \in woken THEN [threads[t] EXCEPT !.pc = "woken"] ELSE threads[t]]

\* BufferedPipe.set_event, line 39: the event is attached.
set_event_attach(t) ==
  /\ pt[t].pc = "idle" /\ t = "c" /\ bp.event = None
  /\ bp' = [bp EXCEPT !.event = "clear"]
  /\ pt' = [pt EXCEPT ![t] = [IdlePipeThread EXCEPT
                                !.pc = "set_event_test", !.op = "set_event"]]
  /\ UNCHANGED << packetvars, filevars >>

\* BufferedPipe.set_event, line 40: the buffer and the closed flag are read
\* without the lock.
set_event_test(t) ==
  /\ pt[t].pc = "set_event_test"
  /\ pt' = [pt EXCEPT ![t].pc = "set_event_apply",
                      ![t].cond = (Len(bp.buffer) > 0 \/ bp.closed)]
  /\ UNCHANGED << packetvars, filevars, bp >>

\* BufferedPipe.set_event, lines 41-43: the event is set or cleared.
set_event_apply(t) ==
  /\ pt[t].pc = "set_event_apply"
  /\ bp' = [bp EXCEPT !.event = IF pt[t].cond THEN "set" ELSE "clear"]
  /\ pt' = [pt EXCEPT ![t].pc = "idle", ![t].result = "ok"]
  /\ UNCHANGED << packetvars, filevars >>

\* BufferedPipe.feed, the locked block: extend the buffer, notify.
feed_locked(t, data) ==
  /\ pt[t].pc = "idle" /\ t = "f" /\ pt[t].calls < MaxFeeds
  /\ \E woken \in SUBSET bp.waiting :
       /\ notify(bp.waiting, woken)
       /\ bp' = [bp EXCEPT !.buffer = @ \o data, !.waiting = @ \ woken]
       /\ pt' = [Wake(pt, woken) EXCEPT
                   ![t] = [IdlePipeThread EXCEPT
                             !.pc = "feed_event", !.op = "feed",
                             !.calls = pt[t].calls + 1]]
  /\ UNCHANGED << packetvars, filevars >>

\* BufferedPipe.feed, after the lock is released: the event is set.
feed_event(t) ==
  /\ pt[t].pc = "feed_event"
  /\ bp' = [bp EXCEPT !.event = IF @ = None THEN None ELSE "set"]
  /\ pt' = [pt EXCEPT ![t].pc = "idle", ![t].result = "ok"]
  /\ UNCHANGED << packetvars, filevars >>

\* BufferedPipe.read_ready.
read_ready(p) == Len(p.buffer) > 0 \/ p.closed

read_ready_call(t) ==
  /\ pt[t].pc = "idle" /\ t = "c"
  /\ pt' = [pt EXCEPT ![t] = [IdlePipeThread EXCEPT
                                !.op = "read_ready",
                                !.result = IF read_ready(bp) THEN "True"
                                           ELSE "False"]]
  /\ UNCHANGED << packetvars, filevars, bp >>

\* BufferedPipe.read, line 93 with the closed flag left out.
MustWaitWhenEmpty(p) == Len(p.buffer) = 0

\* BufferedPipe.read, line 93: the caller waits on the condition.
MustWait(p) == Len(p.buffer) = 0 /\ ~p.closed

\* BufferedPipe.read handing out the whole buffer, whatever nbytes is.
ReadTakenWhole(p, nbytes) == p.buffer

\* BufferedPipe.read, lines 100-114: what is returned, and the pipe after.
ReadTaken(p, nbytes) ==
  IF Len(p.buffer) <= nbytes THEN p.buffer ELSE SubSeq(p.buffer, 1, nbytes)

ReadBody(p, nbytes) ==
  LET left == IF Len(p.buffer) <= nbytes THEN <<>>
              ELSE SubSeq(p.buffer, nbytes + 1, Len(p.buffer))
  IN  IF Len(p.buffer) = 0 /\ p.closed THEN p
      ELSE [p EXCEPT
              !.buffer = left,
              !.event = IF @ # None /\ Len(left) = 0 /\ ~p.closed
                        THEN "clear" ELSE @]

\* BufferedPipe.read, a caller that gets the lock: it waits, or takes bytes.
read_call(t, nbytes, timed) ==
  /\ pt[t].pc = "idle" /\ t \in PipeReaders
  /\ IF MustWait(bp)
     THEN /\ bp' = [bp EXCEPT !.waiting = @ \cup {t}]
          /\ pt' = [pt EXCEPT ![t] = [IdlePipeThread EXCEPT
                                        !.pc = "waiting", !.op = "read",
                                        !.nbytes = nbytes, !.timed = timed,
                                        !.late = bp.closed]]
     ELSE /\ bp' = ReadBody(bp, nbytes)
          /\ pt' = [pt EXCEPT ![t] = [IdlePipeThread EXCEPT
                                        !.op = "read", !.nbytes = nbytes,
                                        !.late = bp.closed,
                                        !.result = "data",
                                        !.data = ReadTaken(bp, nbytes)]]
  /\ UNCHANGED << packetvars, filevars >>

\* BufferedPipe.read, lines 95 and 97: a notified caller has the lock again
\* and goes on at line 100, whatever the buffer holds by now.
read_woken(t) ==
  /\ pt[t].pc = "woken"
  /\ bp' = ReadBody(bp, pt[t].nbytes)
  /\ pt' = [pt EXCEPT ![t].pc = "idle", ![t].timed = FALSE,
                      ![t].result = "data",
                      ![t].data = ReadTaken(bp, pt[t].nbytes)]
  /\ UNCHANGED << packetvars, filevars >>

\* BufferedPipe.read, lines 97-98: the wait ran out.
read_timeout(t) ==
  /\ pt[t].pc = "waiting" /\ pt[t].timed
  /\ bp' = [bp EXCEPT !.waiting = @ \ {t}]
  /\ pt' = [pt EXCEPT ![t].pc = "idle", ![t].timed = FALSE,
                      ![t].result = "PipeTimeout"]
  /\ UNCHANGED << packetvars, filevars >>

\* BufferedPipe.empty.
empty(t) ==
  /\ pt[t].pc = "idle" /\ t = "c"
  /\ bp' = [bp EXCEPT !.buffer = <<>>,
                      !.event = IF @ = None THEN None ELSE "clear"]
  /\ pt' = [pt EXCEPT ![t] = [IdlePipeThread EXCEPT
                                !.op = "empty", !.result = "data",
                                !.data = bp.buffer]]
  /\ UNCHANGED << packetvars, filevars >>

\* BufferedPipe.close, the locked block: set the flag, notify.
close_locked(t) ==
  /\ pt[t].pc = "idle" /\ t = "c"
  /\ \E woken \in SUBSET bp.waiting :
       /\ notify(bp.waiting, woken)
       /\ bp' = [bp EXCEPT !.closed = TRUE, !.waiting = @ \ woken]
       /\ pt' = [Wake(pt, woken) EXCEPT
                   ![t] = [IdlePipeThread EXCEPT
                             !.pc = "close_event", !.op = "close"]]
  /\ UNCHANGED << packetvars, filevars >>

\* BufferedPipe.close, after the lock is released: the event is set.
close_event(t) ==
  /\ pt[t].pc = "close_event"
  /\ bp' = [bp EXCEPT !.event = IF @ = None THEN None ELSE "set"]
  /\ pt' = [pt EXCEPT ![t].pc = "idle", ![t].result = "ok"]
  /\ UNCHANGED << packetvars, filevars >>

NextPipe ==
  \E t \in PipeThreads :
    \/ set_event_attach(t)
    \/ set_event_test(t)
    \/ set_event_apply(t)
    \/ \E data \in {<<>>, <<7>>, <<7, 8>>} : feed_locked(t, data)
    \/ feed_event(t)
    \/ read_ready_call(t)
    \/ \E nbytes \in 1..MaxNbytes, timed \in BOOLEAN :
         read_call(t, nbytes, timed)
    \/ read_woken(t)
    \/ read_timeout(t)
    \/ empty(t)
    \/ close_locked(t)
    \/ close_event(t)

SpecPipe == Init /\ [][NextPipe]_vars

\* The same, with every thread inside a call going on running: a step of a
\* call under way that can be taken is taken.  Calls are not owed: no thread
\* has to call feed, read or close again.
SpecPipeFair ==
  /\ SpecPipe
  /\ \A t \in PipeThreads :
       /\ WF_vars(read_woken(t))
       /\ WF_vars(feed_event(t))
       /\ WF_vars(close_event(t))
       /\ WF_vars(set_event_test(t))
       /\ WF_vars(set_event_apply(t))

\* ----------------------------------------------------------------- file.py
\* One BufferedFile over a subclass whose _read hands out the stream content
\* in chunks and whose _write records what it is given.  The file has one
\* caller; _read's chunk is chosen each time it is called.

\* readline(size=None).
NoSize == -1

\* BufferedFile._set_mode.
_set_mode(f, mode, bufsize) ==
  [f EXCEPT
     !.read = ("r" \in mode) \/ ("+" \in mode),
     !.write = ("w" \in mode) \/ ("a" \in mode) \/ ("+" \in mode),
     !.binary = "b" \in mode,
     !.buffered = bufsize >= 0,
     !.line_buffered = (bufsize = 1),
     !.bufsize = IF bufsize > 1 THEN bufsize ELSE @]

\* The subclass constructor: the stream is there, _set_mode is called.
open(mode, bufsize, content) ==
  /\ fs.pc = "new"
  /\ bf' = _set_mode(bf, mode, bufsize)
  /\ fs' = [fs EXCEPT !.pc = "idle", !.bufsize = bufsize,
                      !.content = IF "r" \in mode THEN content ELSE <<>>]
  /\ UNCHANGED << packetvars, pipevars >>

\* BufferedFile.flush: the body is `pass`.
flush(f, s) == << f, s >>

\* BufferedFile.write, lines 285-292.
write(f, s, data) ==
  IF f.buffered
  THEN LET g == [f EXCEPT !.wbuffer = @ \o data]
           r == IF Len(g.wbuffer) >= g.bufsize THEN flush(g, s) ELSE << g, s >>
       IN  << [r[1] EXCEPT !.pos = @ + Len(data)], r[2] >>
  ELSE << [f EXCEPT !.pos = @ + Len(data)],
          [s EXCEPT !.written = @ \o data] >>

write_call(data) ==
  /\ fs.pc = "idle" /\ fs.calls < MaxFileCalls
  /\ IF ~bf.write
     THEN /\ bf' = bf
          /\ fs' = [fs EXCEPT !.result = "IOError", !.calls = @ + 1]
     ELSE LET r == write(bf, fs, data)
          IN  /\ bf' = r[1]
              /\ fs' = [r[2] EXCEPT !.asked = @ \o data, !.flushed = FALSE,
                                    !.result = "ok", !.calls = @ + 1]
  /\ UNCHANGED << packetvars, pipevars >>

flush_call ==
  /\ fs.pc = "idle" /\ ~fs.flushed
  /\ bf' = flush(bf, fs)[1]
  /\ fs' = [flush(bf, fs)[2] EXCEPT !.flushed = TRUE, !.result = "ok"]
  /\ UNCHANGED << packetvars, pipevars >>

\* self._rbuffer.find(linefeed_byte): the index of the first newline,
\* counted from 1; 0 when there is none.
find(buf) ==
  IF \E i \in 1..Len(buf) : buf[i] = Newline
  THEN CHOOSE i \in 1..Len(buf) :
         buf[i] = Newline /\ \A j \in 1..(i - 1) : buf[j] # Newline
  ELSE 0

\* BufferedFile.readline, lines 181-184.
file_readline_call(size) ==
  /\ fs.pc = "idle" /\ fs.calls < MaxFileCalls
  /\ IF ~bf.read
     THEN fs' = [fs EXCEPT !.result = "IOError", !.calls = @ + 1]
     ELSE fs' = [fs EXCEPT !.pc = "loop", !.size = size, !.line = <<>>,
                           !.calls = @ + 1]
  /\ UNCHANGED << packetvars, pipevars, bf >>

\* BufferedFile.readline, line 185.
LineWanted(s) == s.size = NoSize \/ Len(s.line) < s.size

\* BufferedFile.readline, lines 186-199: one round of the loop; _read hands
\* out k bytes, none at the end of the stream.
file_readline_loop ==
  /\ fs.pc = "loop" /\ LineWanted(fs)
  /\ LET at == find(bf.rbuffer)
     IN  IF at > 0
         THEN /\ bf' = [bf EXCEPT
                          !.rbuffer = SubSeq(@, at + 1, Len(@))]
              /\ fs' = [fs EXCEPT
                          !.line = @ \o SubSeq(bf.rbuffer, 1, at),
                          !.pc = "return"]
         ELSE LET rest == Len(fs.content) - fs.at
              IN  \E k \in IF rest = 0 THEN {0}
                           ELSE 1..Min(bf.bufsize, rest) :
                    /\ bf' = [bf EXCEPT
                                !.rbuffer = SubSeq(fs.content, fs.at + 1,
                                                   fs.at + k)]
                    /\ fs' = [fs EXCEPT
                                !.line = @ \o bf.rbuffer,
                                !.at = @ + k,
                                !.pc = IF k = 0 THEN "return" ELSE "loop"]
  /\ UNCHANGED << packetvars, pipevars >>

\* BufferedFile.readline, lines 201-206: line[:size] is returned.
Cut(f, s) ==
  << f, IF s.size = NoSize THEN s.line
        ELSE SubSeq(s.line, 1, Min(s.size, Len(s.line))) >>

file_readline_return ==
  /\ fs.pc = "return" \/ (fs.pc = "loop" /\ ~LineWanted(fs))
  /\ bf' = Cut(bf, fs)[1]
  /\ fs' = [fs EXCEPT !.pc = "idle", !.line = <<>>, !.result = "line",
                      !.out = Cut(bf, fs)[2],
                      !.pieces = @ \o Cut(bf, fs)[2]]
  /\ UNCHANGED << packetvars, pipevars >>

\* BufferedFile.read: the read buffer first, then _read until size bytes are
\* there or the stream ends; the whole rest of the stream when size is None
\* or negative.  The chunks _read hands out do not change what is returned.
file_read_call(size) ==
  LET rest == SubSeq(fs.content, fs.at + 1, Len(fs.content))
      all == bf.rbuffer \o rest
      n == IF size = NoSize THEN Len(all) ELSE Min(size, Len(all))
      kept == IF size = NoSize THEN <<>>
              ELSE SubSeq(bf.rbuffer, size + 1, Len(bf.rbuffer))
  IN  /\ fs.pc = "idle" /\ fs.calls < MaxFileCalls
      /\ IF ~bf.read
         THEN /\ bf' = bf
              /\ fs' = [fs EXCEPT !.result = "IOError", !.calls = @ + 1]
         ELSE /\ bf' = [bf EXCEPT !.rbuffer = kept]
              /\ fs' = [fs EXCEPT
                          !.result = "data", !.calls = @ + 1, !.size = size,
                          !.out = SubSeq(all, 1, n),
                          !.at = @ + n - Min(n, Len(bf.rbuffer))]
      /\ UNCHANGED << packetvars, pipevars >>

\* BufferedFile.seek; seekable() is True, _get_size() is 0 in a subclass that
\* does not override it.
seek(offset, whence) ==
  /\ fs.pc = "idle" /\ fs.calls < MaxFileCalls
  /\ bf' = [bf EXCEPT
              !.pos = IF whence = 0 THEN offset
                      ELSE IF whence = 1 THEN @ + offset
                      ELSE 0 + offset,
              !.rbuffer = <<>>]
  /\ fs' = [fs EXCEPT !.result = "seek", !.calls = @ + 1,
                      !.offset = offset, !.whence = whence]
  /\ UNCHANGED << packetvars, pipevars >>

\* BufferedFile.tell.
tell(f) == f.pos

NextFile ==
  \/ \E mode \in {{"r", "b"}, {"w", "b"}},
        bufsize \in {-1, 0, 1, MaxBufsize},
        content \in UNION {[1..k -> StreamBytes] : k \in 0..MaxContent} :
       open(mode, bufsize, content)
  \/ \E data \in {<<1>>, <<2, Newline>>} : write_call(data)
  \/ flush_call
  \/ \E size \in {NoSize} \cup (1..MaxSize) : file_readline_call(size)
  \/ file_readline_loop
  \/ file_readline_return
  \/ \E size \in {NoSize, 1} : file_read_call(size)
  \/ \E whence \in 0..2 : seek(1, whence)

SpecFile == Init /\ [][NextFile]_vars

\* ------------------------------------------ a stream that fails or replays

\* e.send_message(data) when self.__socket.sendall raises (line 201) on a
\* stream that is down: the lines before it have run, the two after it have
\* not, and nothing of the frame reaches the peer.
send_message_broken(e, data) ==
  LET p == pk[e]
  IN  /\ p.block_engine_out # None /\ p.mac_engine_out # None
      /\ data \in Payloads
      /\ p.sequence_number_out[2] < MaxFrames
      /\ pk' = [pk EXCEPT
                  ![e].sequence_number_out = SeqInc(p.sequence_number_out)]
      /\ last' = [op |-> "send_message", on |-> e, result |-> "socket.error"]
      /\ UNCHANGED << sock, rd, wr, sc, sent, got, taint, xvars >>

\* The network hands e a frame its peer has written, whichever it likes and
\* in place of what was under way: a frame again, or one ahead of its turn
\* (at most once in a run).
deliver(e, i) ==
  /\ rd[e].pc = "idle" /\ taint[e] = 0
  /\ net[e].frame = 0
  /\ i \in 1..Len(sent[Peer(e)])
  /\ sock' = [sock EXCEPT ![e] = sent[Peer(e)][i].packet]
  /\ net' = [net EXCEPT ![e] = [frame |-> i, at |-> Len(got[e])]]
  /\ UNCHANGED << pk, rd, wr, sc, sent, got, taint, last, now, tm, eof, fed,
                  rl, ra, ul, pipevars, filevars, hk >>

NextNet ==
  \/ \E e \in Senders, s \in Slots : set_outbound_cipher(e, s)
  \/ \E e \in Readers, s \in Slots : set_inbound_cipher(e, s)
  \/ \E e \in Senders, data \in Payloads : send_message(e, data)
  \/ \E e \in Senders, data \in Payloads : send_message_broken(e, data)
  \/ \E e \in Readers, i \in 1..MaxFrames : deliver(e, i)
  \/ \E e \in Readers : recv(e)

SpecNet == Init /\ [][NextNet]_vars

\* ------------------------------------------------ two engines, both ways

\* On the connection keyed both ways, on which B has sent a frame, B
\* installs slots in either direction between its reads of what A sends.
NextSlots ==
  \/ \E e \in Readers, s \in Slots : set_outbound_cipher(e, s)
  \/ \E e \in Readers, s \in Slots : set_inbound_cipher(e, s)
  \/ \E e \in Senders, data \in Payloads : send_message(e, data)
  \/ \E e \in Readers : recv(e)

SpecSlots == InitLong /\ [][NextSlots]_vars

\* ------------------------------------------------------------- hostkeys.py
\* One HostKeys filled by add and __setitem__, never loaded from a file: host
\* names are plain, not hashed.  A key is its type name and an id; the key of
\* HostKeyEntry([hostname], None) has id 0, and calling get_name() on it
\* raises AttributeError.

\* HostKeys._hostname_matches, for plain host names.
_hostname_matches(hostname, entry) ==
  \E i \in 1..Len(entry.hostnames) : entry.hostnames[i] = hostname

\* HostKeys.lookup: the keys of the matching entries by type, a later entry
\* replacing an earlier one of its type; None when there is none.
lookup(entries, hostname) ==
  LET hits == {i \in 1..Len(entries) : _hostname_matches(hostname, entries[i])}
      keys == {entries[i].key : i \in
                 {i \in hits : \A j \in hits :
                                  entries[j].key.name = entries[i].key.name
                                    => j <= i}}
  IN  IF \E i \in hits : entries[i].key.id = 0
      THEN [result |-> "AttributeError", keys |-> {}]
      ELSE IF keys = {} THEN [result |-> None, keys |-> {}]
      ELSE [result |-> "dict", keys |-> keys]

lookup_call(hostname) ==
  /\ hk' = [hk EXCEPT !.op = "lookup", !.host = hostname,
                      !.result = lookup(hk.entries, hostname).result,
                      !.keys = lookup(hk.entries, hostname).keys]
  /\ UNCHANGED << pk, sock, rd, wr, sc, sent, got, taint, last, now, tm, eof,
                  fed, rl, ra, ul, pipevars, filevars, net >>

\* HostKeys.add: the first entry of exactly this host name and this key type
\* gets the key; with none, a new entry is appended.
add(hostname, keytype, key) ==
  LET named == {i \in 1..Len(hk.entries) :
                  hk.entries[i].hostnames = << hostname >>}
      stop == {i \in named : hk.entries[i].key.id = 0
                               \/ hk.entries[i].key.name = keytype}
      first == CHOOSE i \in stop : \A j \in stop : i <= j
  IN  /\ Len(hk.entries) < MaxEntries
      /\ key.name = keytype
      /\ hk' = [hk EXCEPT
                  !.op = "add", !.host = hostname, !.keys = {},
                  !.result = IF stop # {} /\ hk.entries[first].key.id = 0
                             THEN "AttributeError" ELSE "ok",
                  !.entries =
                    IF stop = {}
                    THEN Append(@, [hostnames |-> << hostname >>, key |-> key])
                    ELSE IF hk.entries[first].key.id = 0 THEN @
                    ELSE [@ EXCEPT ![first].key = key]]
      /\ UNCHANGED << pk, sock, rd, wr, sc, sent, got, taint, last, now, tm,
                      eof, fed, rl, ra, ul, pipevars, filevars, net >>

\* HostKeys.__delitem__: the first matching entry is popped.
__delitem__(key) ==
  LET hits == {i \in 1..Len(hk.entries) :
                 _hostname_matches(key, hk.entries[i])}
      index == CHOOSE i \in hits : \A j \in hits : i <= j
  IN  /\ hk' = [hk EXCEPT
                  !.op = "__delitem__", !.host = key, !.keys = {},
                  !.result = IF hits = {} THEN "KeyError" ELSE "ok",
                  !.entries =
                    IF hits = {} THEN @
                    ELSE SubSeq(@, 1, index - 1)
                           \o SubSeq(@, index + 1, Len(@))]
      /\ UNCHANGED << pk, sock, rd, wr, sc, sent, got, taint, last, now, tm,
                      eof, fed, rl, ra, ul, pipevars, filevars, net >>

\* HostKeys.__setitem__ with the dict `entry` given as its keys in the
\* dict's order.  An empty dict appends an entry without a key.  Otherwise,
\* for each key type in turn, every entry of the host with that type gets
\* the key, and a new entry is appended when there was none; get_name() on
\* an entry without a key ends the call with the changes made so far.
__setitem__(hostname, entry) ==
  LET SetKey(acc, key) ==
        LET es == acc.entries
            mine == {i \in 1..Len(es) : hostname \in
                       {es[i].hostnames[j] : j \in 1..Len(es[i].hostnames)}}
            bad == {i \in mine : es[i].key.id = 0}
            found == {i \in mine : es[i].key.name = key.name
                                     /\ \A j \in bad : i < j}
        IN  IF acc.result # "ok" THEN acc
            ELSE IF bad # {}
            THEN [entries |-> [i \in 1..Len(es) |->
                                 IF i \in found THEN [es[i] EXCEPT !.key = key]
                                 ELSE es[i]],
                  result |-> "AttributeError"]
            ELSE IF found # {}
            THEN [entries |-> [i \in 1..Len(es) |->
                                 IF i \in found THEN [es[i] EXCEPT !.key = key]
                                 ELSE es[i]],
                  result |-> "ok"]
            ELSE [entries |-> Append(es, [hostnames |-> << hostname >>,
                                          key |-> key]),
                  result |-> "ok"]
      start == [entries |-> hk.entries, result |-> "ok"]
      end == IF Len(entry) = 0
             THEN [entries |-> Append(hk.entries,
                                      [hostnames |-> << hostname >>,
                                       key |-> [name |-> None, id |-> 0]]),
                   result |-> "ok"]
             ELSE IF Len(entry) = 1 THEN SetKey(start, entry[1])
             ELSE SetKey(SetKey(start, entry[1]), entry[2])
  IN  /\ Len(hk.entries) + Len(entry) <= MaxEntries
      /\ Len(hk.entries) < MaxEntries
      /\ hk' = [hk EXCEPT !.op = "__setitem__", !.host = hostname,
                          !.keys = {}, !.result = end.result,
                          !.entries = end.entries]
      /\ UNCHANGED << pk, sock, rd, wr, sc, sent, got, taint, last, now, tm,
                      eof, fed, rl, ra, ul, pipevars, filevars, net >>

NextHostKeys ==
  \E hostname \in {"h1", "h2"} :
    \/ \E keytype \in {"ssh-rsa", "ssh-ed25519"}, id \in 1..MaxKeyId :
         add(hostname, keytype, [name |-> keytype, id |-> id])
    \/ \E a, b \in 1..MaxKeyId :
       \E entry \in {<<>>,
                     << [name |-> "ssh-rsa", id |-> a] >>,
                     << [name |-> "ssh-ed25519", id |-> b] >>,
                     << [name |-> "ssh-rsa", id |-> a],
                        [name |-> "ssh-ed25519", id |-> b] >>} :
         __setitem__(hostname, entry)
    \/ __delitem__(hostname)
    \/ lookup_call(hostname)

SpecHostKeys == Init /\ [][NextHostKeys]_vars

\* ----------------------------------------------------------------- claims

\* The frame the i-th read_message call of e should be reading.
FrameOf(e, i) == sent[Peer(e)][i]

\* Every read_message call of e before the i-th returned normally and took
\* exactly one frame from the socket, so the i-th call starts at frame i.
Aligned(e, i) ==
  /\ i <= Len(sent[Peer(e)])
  /\ \A j \in 1..(i - 1) :
       got[e][j].kind = "ok" /\ got[e][j].taken = FrameOf(e, j).packet

\* The i-th read_message call of e ran under the inbound slot that matches
\* the outbound slot frame i was written under.
Matched(e, i) == got[e][i].slot = AsInSlot(FrameOf(e, i).slot)

\* C1: round-trip law.  A frame written by send_message and read by
\* read_message on the peer, whose inbound slot matches the sender's outbound
\* slot, comes back as exactly the payload that was sent.
RoundTripLaw ==
  \A e \in Readers : \A i \in 1..Len(got[e]) :
    (Aligned(e, i) /\ Matched(e, i) /\ ~got[e][i].tainted)
      => (got[e][i].kind = "ok" /\ got[e][i].payload = FrameOf(e, i).data)

\* C2: when one byte of a frame written with a MAC engine installed is
\* altered before delivery, read_message on the peer ends with the
\* MAC-mismatch error, whichever byte it was.
AlteredFrameFailsMac ==
  \A e \in Readers : \A i \in 1..Len(got[e]) :
    (Aligned(e, i) /\ Matched(e, i) /\ got[e][i].tainted)
      => got[e][i].kind = "mac"

\* The length a frame declares in its first four bytes, and the padding that
\* leaves for a payload of the given length (total_length = 1 + payload + padding).
DeclaredLength(packet) == Unpack32(PySlice(packet, 0, 4))
PaddingLength(f) == DeclaredLength(f.packet) - 1 - Len(f.data)
LengthWithoutMac(f) == Len(f.packet) - f.slot.mac_size
BlockUnit(f) == IF f.slot.block_size > 8 THEN f.slot.block_size ELSE 8

\* C3: every frame send_message writes has a length, MAC excluded, that is a
\* multiple of max(8, block_size), and a padding length between 4 and 255.
FramesArePadded ==
  \A e \in Senders : \A i \in 1..Len(sent[e]) :
    /\ LengthWithoutMac(sent[e][i]) % BlockUnit(sent[e][i]) = 0
    /\ PaddingLength(sent[e][i]) >= 4
    /\ PaddingLength(sent[e][i]) <= 255

\* The payloads read_message has returned, and the payloads the peer has sent.
RECURSIVE Returned(_)
Returned(h) ==
  IF h = <<>> THEN <<>>
  ELSE IF Head(h).kind = "ok" THEN << Head(h).payload >> \o Returned(Tail(h))
  ELSE Returned(Tail(h))
SentPayloads(e) == [i \in 1..Len(sent[e]) |-> sent[e][i].data]
IsPrefix(a, b) == Len(a) <= Len(b) /\ a = SubSeq(b, 1, Len(a))
NeverTainted(e) ==
  taint[e] = 0 /\ ~rd[e].tainted /\ \A i \in 1..Len(got[e]) : ~got[e][i].tainted

AllMatched(e) ==
  \A i \in 1..Min(Len(got[e]), Len(sent[Peer(e)])) : Matched(e, i)

\* C4: read_message returns the payloads in the order they were sent, each
\* once: on a loopback pair with matching slots and an unaltered stream, what
\* it has returned so far is a prefix of what the peer has sent.
FifoDelivery ==
  \A e \in Readers :
    (NeverTainted(e) /\ AllMatched(e))
      => IsPrefix(Returned(got[e]), SentPayloads(Peer(e)))

\* C5: concurrent send_message calls exclude each other: no two frames are
\* MAC'd with the same sequence number, and the frames reach the stream in
\* the order of their sequence numbers.
SendsAreExclusive ==
  \A i \in 1..Len(sent["A"]) : \A j \in 1..Len(sent["A"]) :
    i < j => SeqLess(sent["A"][i].seq, sent["A"][j].seq)

\* C6: set_outbound_cipher replaces the slot atomically for a concurrent
\* send_message: the cipher engine and the MAC key of every frame come from
\* one and the same slot.
FramesUseOneSlot ==
  \A i \in 1..Len(sent["A"]) :
    \E s \in Slots :
      sent["A"][i].cipher = s.block_engine /\ sent["A"][i].key = s.mac_key

\* C7: a frame written before set_outbound_cipher installed another slot
\* stays decodable by a peer still on the old inbound slot (and frames written
\* after it carry the new slot: each frame is the packet its slot builds).
OldFramesStayDecodable ==
  \A e \in Readers : \A i \in 1..Len(got[e]) :
    (Aligned(e, i) /\ Matched(e, i) /\ ~got[e][i].tainted
       /\ OutSlot(pk[Peer(e)]) # FrameOf(e, i).slot)
      => (got[e][i].kind = "ok" /\ got[e][i].payload = FrameOf(e, i).data)

\* C8: need_rekey() is true whenever sent_bytes or sent_packets has reached
\* 2^29, and false when the rekey flag is unset and all four counters are
\* below 2^29.
NeedRekeyOnSentCounters ==
  \A e \in Engines :
    (last.op = "need_rekey" /\ last.on = e) =>
      /\ (pk[e].sent_bytes >= 536870912 \/ pk[e].sent_packets >= 536870912)
           => last.result = "True"
      /\ (~pk[e].need_rekey_flag
          /\ pk[e].sent_bytes <= 536870911 /\ pk[e].sent_packets <= 536870911
          /\ pk[e].received_bytes <= 536870911 /\ pk[e].received_packets <= 536870911)
           => last.result = "False"

\* need_rekey() was called at the boundary: it answered True with sent_bytes
\* at exactly 2^29 and nothing else to cause it.
NeedRekeyAtThreshold ==
  /\ last.op = "need_rekey" /\ last.on = "A" /\ last.result = "True"
  /\ pk["A"].sent_bytes = 536870912 /\ pk["A"].sent_packets = 0
  /\ ~pk["A"].need_rekey_flag

\* C9: need_rekey() is true whenever received_bytes or received_packets has
\* reached 2^29.
NeedRekeyOnReceivedCounters ==
  \A e \in Engines :
    (last.op = "need_rekey" /\ last.on = e
       /\ (pk[e].received_bytes >= 536870912 \/ pk[e].received_packets >= 536870912))
      => last.result = "True"

\* C10: a read_message call that ends with NeedRekeyException has taken no
\* bytes from the stream, so nothing the peer sent is lost by retrying.
RekeySignalLosesNothing ==
  \A e \in Readers : \A i \in 1..Len(got[e]) :
    got[e][i].kind = "rekey" => got[e][i].taken = <<>>

\* C11: once the deadline of e.start_handshake(timeout) has passed and
\* complete_handshake has not been called since, e.handshake_timed_out()
\* returns True.
TimedOutAfterDeadline ==
  \A e \in Engines :
    (tm[e].started /\ ~tm[e].completed /\ now > tm[e].deadline)
      => handshake_timed_out(pk[e])

\* C12: once complete_handshake has been called before the deadline of the
\* latest start_handshake, e.handshake_timed_out() returns False, also when
\* the clock has passed that deadline.
CompletedNeverTimesOut ==
  \A e \in Engines :
    (tm[e].started /\ tm[e].completed /\ tm[e].completed_at < tm[e].deadline)
      => ~handshake_timed_out(pk[e])

\* A handshake completed in time, asked after its deadline whether it timed out.
CompletedAskedAfterDeadline ==
  \E e \in Engines :
    /\ tm[e].started /\ tm[e].completed /\ tm[e].completed_at < tm[e].deadline
    /\ now > tm[e].deadline
    /\ last = [op |-> "handshake_timed_out", on |-> e, result |-> "False"]

\* C13: a call of handshake_timed_out() changes no field of any engine, and
\* on an engine start_handshake was never called on it returns False.
TimedOutIsPureQuery ==
  /\ [](\A e \in Engines : ~tm[e].started => ~handshake_timed_out(pk[e]))
  /\ [][\A e \in Engines :
          handshake_timed_out_call(e) =>
            /\ pk' = pk
            /\ (~tm[e].started => last'.result = "False")]_vars

\* handshake_timed_out() has answered on an engine never started, after the
\* other engine was started and the clock moved.
AskedWithoutStart ==
  \E e \in Engines :
    /\ ~tm[e].started /\ tm[Peer(e)].started /\ now > 0
    /\ last = [op |-> "handshake_timed_out", on |-> e, result |-> "False"]

\* Engine e has neither written nor read a byte yet.
NoTraffic(e) == sent[e] = <<>> /\ got[e] = <<>> /\ rd[e].pc = "idle"

\* C14: with a keepalive interval > 0 set, once more than interval seconds
\* have passed on an engine that sent and received nothing, its callback has
\* been invoked; and every step in which an engine writes a frame or takes
\* bytes from its socket sets its idle clock to the time of that step.
KeepaliveLaw ==
  /\ [](\A e \in Engines :
          (/\ pk[e].keepalive_interval > 0
           /\ NoTraffic(e)
           /\ now > pk[e].keepalive_last + pk[e].keepalive_interval)
            => tm[e].callbacks > 0)
  /\ [][\A e \in Engines :
          (Len(sent'[e]) > Len(sent[e]) \/ Len(sock'[e]) < Len(sock[e]))
            => pk'[e].keepalive_last = now']_vars

\* The bytes of the stream at positions from + 1 .. to, as the peer wrote them.
StreamPart(e, from, to) == SubSeq(fed[e], from + 1, to)

ReadlineHonoursTimeout ==
  \A e \in Readers :
    (rl.pc = "recv" /\ rl.timeout # NoTimeout /\ now > rl.start + rl.timeout)
      => (sock[e] # <<>> \/ eof[e])

\* C18: read_all(n) returns exactly the n bytes of the stream that follow
\* the position where the call began, in the order the peer wrote them and
\* whatever sizes the recv calls returned, and takes no more than those n
\* from the socket; it raises EOFError only on a closed stream that held
\* fewer than n bytes from that position.
ReadAllExact ==
  \A e \in Readers :
    /\ ra.result = "ok" =>
         /\ Len(ra.out) = ra.n
         /\ ra.out = StreamPart(e, ra.base, ra.base + ra.n)
         /\ ra.end = ra.base + ra.n
    /\ ra.result = "EOFError" =>
         /\ eof[e]
         /\ Len(fed[e]) - ra.base < ra.n
    /\ (ra.pc = "recv" /\ eof[e] /\ Len(fed[e]) - ra.base < ra.n)
         => (sock[e] # <<>> \/ ENABLED read_all_recv(e))

\* read_all has returned three or more bytes gathered over several recv calls.
ReadAllOverSplitReads ==
  ra.result = "ok" /\ ra.n >= 3 /\ ra.calls >= 2

\* The step in which the read_message call of e gets the last byte of its header.
HeaderRead(e) ==
  /\ rd[e].pc # "body"
  /\ rd'[e].pc = "body" \/ Len(got'[e]) = Len(got[e]) + 1

\* The header that step completed.
HeaderOf(e) ==
  IF rd'[e].pc = "body"
  THEN rd'[e].header
  ELSE SubSeq(got'[e][Len(got'[e])].taken, 1, pk[e].block_size_in)

\* What the declared length, less the bytes that came with the header,
\* leaves over a whole number of inbound blocks.
LengthRemainder(p, header) ==
  (Unpack32(SubSeq(header, 1, 4)) - (Len(header) - 4)) % p.block_size_in

\* C17: whenever read_message has read a header whose declared length leaves
\* a remainder that is not a multiple of the inbound block size, the call
\* ends there with 'Invalid packet blocking', having taken the header and no
\* byte of the body from the socket.
BadBlockingIsRaisedFirst ==
  [][\A e \in Readers :
       (HeaderRead(e) /\ LengthRemainder(pk[e], HeaderOf(e)) # 0) =>
         /\ Len(got'[e]) = Len(got[e]) + 1
         /\ got'[e][Len(got'[e])].kind = "blocking"
         /\ got'[e][Len(got'[e])].taken = HeaderOf(e)]_vars

\* C19: inflate_long(deflate_long(n)) = n for every n of the range, negative
\* n included.
InflateUndoesDeflate ==
  ul.pc = "inflated" => ul.out = ul.n

\* The shortest big-endian two's-complement byte string of n: one byte when
\* n fits a signed byte, else the string of n's higher bytes and n's low byte.
RECURSIVE MinimalTwosComplement(_)
MinimalTwosComplement(n) ==
  IF n >= -128 /\ n <= 127 THEN << n % 256 >>
  ELSE MinimalTwosComplement(n \div 256) \o << n % 256 >>

\* C20: deflate_long(n) is the minimal-length big-endian two's-complement
\* encoding of n (127 -> 7F, 128 -> 00 80, -128 -> 80, -129 -> FF 7F, -1 -> FF).
DeflateIsMinimal ==
  ul.pc # "start" => ul.s = MinimalTwosComplement(ul.n)

\* No slot was ever installed on e: set_*_cipher never puts None back.
NeverKeyed(e) ==
  pk[e].block_engine_out = None /\ pk[e].block_engine_in = None

\* C21: an engine on which no slot was ever installed has block size 8, no
\* cipher and no MAC in both directions, and a send_message call on it
\* writes its frame instead of raising.
FreshIsPlaintext ==
  \A e \in Engines :
    NeverKeyed(e) =>
      /\ pk[e].block_size_out = 8 /\ pk[e].block_size_in = 8
      /\ pk[e].mac_engine_out = None /\ pk[e].mac_engine_in = None
      /\ pk[e].mac_size_out = 0 /\ pk[e].mac_size_in = 0
      /\ (last.op = "send_message" /\ last.on = e) => last.result = "ok"

\* The length field, the bytes after it and the MAC of a frame as written.
WireLength(f) == SubSeq(f.packet, 1, 4)
WireBody(f) == SubSeq(f.packet, 5, Len(f.packet) - f.slot.mac_size)
WireMac(f) == SubSeq(f.packet, Len(f.packet) - f.slot.mac_size + 1, Len(f.packet))

\* C22: a frame sent under a slot with the encrypt-then-mac flag carries its
\* length field in the clear and a MAC over sequence number, clear length
\* and ciphertext; a frame sent under a slot without the flag carries its
\* length field encrypted and a MAC over sequence number and plaintext.
MacFollowsEtmFlag ==
  \A e \in Engines : \A i \in 1..Len(sent[e]) :
    LET f == sent[e][i]
        clear == Pack32(Len(WireBody(f)))
    IN  IF f.slot.etm
        THEN /\ WireLength(f) = clear
             /\ WireMac(f) = Digest(f.key, PackSeq(f.seq) \o clear \o WireBody(f))
        ELSE /\ WireLength(f) = Encrypt(f.cipher, clear)
             /\ WireMac(f) = Digest(f.key, PackSeq(f.seq) \o clear \o f.data)

\* C29: a step advances seq_out of an engine by one exactly when a
\* send_message call of that engine succeeds in it, and seq_in by one
\* exactly when a read_message call of that engine returns in it; no other
\* step changes either counter.
SeqCountsSuccesses ==
  [][\A e \in Engines :
       /\ pk'[e].sequence_number_out =
            IF Len(sent'[e]) > Len(sent[e])
            THEN SeqInc(pk[e].sequence_number_out)
            ELSE pk[e].sequence_number_out
       /\ pk'[e].sequence_number_in =
            IF Len(got'[e]) > Len(got[e]) /\ got'[e][Len(got'[e])].kind = "ok"
            THEN SeqInc(pk[e].sequence_number_in)
            ELSE pk[e].sequence_number_in]_vars

\* The MAC at the end of the bytes a read_message call took equals the
\* digest of p's inbound sequence number and the bytes between the length
\* field and that MAC (or p has no inbound MAC).
CarriesValidMac(p, taken) ==
  \/ p.mac_size_in = 0
  \/ /\ Len(taken) >= 4 + p.mac_size_in
     /\ SubSeq(taken, Len(taken) - p.mac_size_in + 1, Len(taken))
          = Digest(p.mac_key_in,
                   PackSeq(p.sequence_number_in)
                     \o SubSeq(taken, 5, Len(taken) - p.mac_size_in))

\* C30: a read_message call that ends on a MAC mismatch returns no payload
\* and leaves every field of the engine, seq_in and the received counters
\* among them, as it was; and a call returns a payload or changes the engine
\* only for a frame whose MAC is valid.
MacCheckedBeforeUse ==
  [][\A e \in Readers :
       Len(got'[e]) > Len(got[e]) =>
         LET o == got'[e][Len(got'[e])] IN
         /\ o.kind = "mac" => (pk'[e] = pk[e] /\ o.payload = <<>>)
         /\ (o.kind = "ok" \/ pk'[e] # pk[e]) => CarriesValidMac(pk[e], o.taken)
         /\ (o.kind = "mac") => ~CarriesValidMac(pk[e], o.taken)]_vars

\* The first read_message call of B met an altered frame and ended on the MAC
\* mismatch, with B's inbound counters still at zero.
MacMismatchSeen ==
  /\ Len(got["B"]) = 1
  /\ got["B"][1].kind = "mac" /\ got["B"][1].tainted
  /\ pk["B"].sequence_number_in = SeqZero
  /\ pk["B"].received_packets = 0 /\ pk["B"].received_bytes = 0

\* C23: BufferedPipe.read returns a zero-length result only if the pipe has
\* been closed and its buffer is empty.  The closed flag is never reset, so
\* a reader that holds an empty result while the pipe is open got it from an
\* open pipe.
EmptyReadOnlyWhenClosed ==
  \A t \in PipeReaders :
    (pt[t].op = "read" /\ pt[t].pc = "idle" /\ pt[t].result = "data"
       /\ pt[t].data = <<>>)
      => bp.closed

\* No thread is inside a BufferedPipe call.
NoPipeCallInProgress == \A t \in PipeThreads : pt[t].pc = "idle"

\* C24: once an event is attached, whenever no BufferedPipe operation is in
\* progress the event is set if and only if the buffer is non-empty or the
\* pipe is closed.
EventTracksReadable ==
  (bp.event # None /\ NoPipeCallInProgress)
    => (bp.event = "set" <=> (Len(bp.buffer) > 0 \/ bp.closed))

\* A read call made now would return at least one byte without waiting.
ReadWouldReturnBytes(p) == ~MustWait(p) /\ ReadTaken(p, 1) # <<>>

\* C25: read_ready() returns True if and only if a read call made at that
\* moment would immediately return at least one byte.
ReadReadyMeansBytes ==
  [][\A t \in PipeThreads :
       (pt'[t].op = "read_ready" /\ pt'[t] # pt[t])
         => (pt'[t].result = "True" <=> ReadWouldReturnBytes(bp))]_vars

\* C26: close() leaves the buffered data in place, and a read that starts
\* on a closed pipe returns at once: the next bytes of the buffer while
\* there are any, the empty string after that; it neither waits nor raises
\* PipeTimeout.
ClosedReadsReturnAtOnce ==
  /\ [][(bp'.closed /\ ~bp.closed) => bp'.buffer = bp.buffer]_vars
  /\ [][\A t \in PipeReaders :
          (bp.closed /\ pt[t].pc = "idle" /\ pt'[t] # pt[t])
            => LET k == Min(pt'[t].nbytes, Len(bp.buffer))
               IN  /\ pt'[t].pc = "idle"
                   /\ pt'[t].result = "data"
                   /\ pt'[t].data = SubSeq(bp.buffer, 1, k)
                   /\ bp'.buffer = SubSeq(bp.buffer, k + 1, Len(bp.buffer))
                   /\ bp'.closed]_vars

\* One read on the closed pipe returned bytes fed before the close, a later
\* one the empty string.
LateReadsSeen ==
  \E t, u \in PipeReaders :
    /\ pt[t].late /\ pt[t].result = "data" /\ pt[t].data # <<>>
    /\ pt[u].late /\ pt[u].result = "data" /\ pt[u].data = <<>>
    /\ pt[u].pc = "idle" /\ bp.closed

\* C27: for a file opened for writing, after write calls followed by
\* flush() every byte written has been passed to _write exactly once and in
\* write order; with bufsize 0 each write has reached _write when write
\* returns.
FlushWritesEverything ==
  (bf.write /\ fs.pc = "idle")
    => /\ fs.flushed => (fs.written = fs.asked)
       /\ fs.bufsize = 0 => (fs.written = fs.asked)

\* C28: the pieces successive readline(size) calls return are, put together,
\* the stream content read so far less what is still in the read buffer (no
\* byte dropped or repeated), and an empty piece is returned only at the end
\* of the stream.
ReadlinePiecesAreTheStream ==
  (bf.read /\ fs.pc = "idle")
    => /\ fs.pieces \o bf.rbuffer = SubSeq(fs.content, 1, fs.at)
       /\ (fs.result = "line" /\ fs.out = <<>>)
            => (fs.at = Len(fs.content) /\ bf.rbuffer = <<>>)

\* C31: when the stream write of send_message raises, seq_out, sent_bytes
\* and sent_packets keep the values they had before the call.
FailedSendCountsNothing ==
  [][\A e \in Senders :
       (last'.op = "send_message" /\ last'.on = e
          /\ last'.result = "socket.error" /\ pk'[e] # pk[e])
         => /\ pk'[e].sequence_number_out = pk[e].sequence_number_out
            /\ pk'[e].sent_bytes = pk[e].sent_bytes
            /\ pk'[e].sent_packets = pk[e].sent_packets]_vars

\* C33: with a MAC engine on the inbound slot, holding the key the frame was
\* MAC'd with, a frame the network delivers when the receiver's seq_in is
\* not the number the frame was sent under (a frame delivered again, or
\* ahead of its turn) is rejected by read_message with the MAC-mismatch
\* error.
ReplayFailsMac ==
  [][\A e \in Readers :
       (/\ Len(got'[e]) > Len(got[e])
        /\ net[e].frame > 0 /\ net[e].at = Len(got[e])
        /\ pk[e].mac_engine_in # None
        /\ sent[Peer(e)][net[e].frame].key = pk[e].mac_key_in
        /\ sent[Peer(e)][net[e].frame].seq # pk[e].sequence_number_in)
         => got'[e][Len(got'[e])].kind = "mac"]_vars

\* C32: installing a new slot resets the rekey counters of its direction:
\* sent_bytes and sent_packets are 0 after set_outbound_cipher,
\* received_bytes and received_packets are 0 after set_inbound_cipher, and
\* need_rekey() is then true only if the rekey flag is set.
InstallResetsCounters ==
  [][\A e \in Engines :
       /\ OutSlot(pk'[e]) # OutSlot(pk[e])
            => /\ pk'[e].sent_bytes = 0 /\ pk'[e].sent_packets = 0
               /\ need_rekey(pk'[e]) => pk'[e].need_rekey_flag
       /\ InSlot(pk'[e]) # InSlot(pk[e])
            => pk'[e].received_bytes = 0 /\ pk'[e].received_packets = 0]_vars

\* C34: set_outbound_cipher leaves every inbound slot field, seq_in and
\* seq_out unchanged, and set_inbound_cipher leaves every outbound slot
\* field, seq_in and seq_out unchanged.
SlotsAreIndependent ==
  [][\A e \in Engines :
       /\ OutSlot(pk'[e]) # OutSlot(pk[e])
            => /\ InSlot(pk'[e]) = InSlot(pk[e])
               /\ pk'[e].sequence_number_in = pk[e].sequence_number_in
               /\ pk'[e].sequence_number_out = pk[e].sequence_number_out
       /\ InSlot(pk'[e]) # InSlot(pk[e])
            => /\ OutSlot(pk'[e]) = OutSlot(pk[e])
               /\ pk'[e].sequence_number_in = pk[e].sequence_number_in
               /\ pk'[e].sequence_number_out = pk[e].sequence_number_out]_vars

\* B, with frames sent and read, has installed another slot in each
\* direction: the inbound one after a frame was read under the old one.
BothSlotsReinstalled ==
  \E e \in Readers :
    /\ pk[e].sequence_number_in # SeqZero
    /\ pk[e].sequence_number_out # SeqZero
    /\ OutSlot(pk[e]).block_engine = "cipher2"
    /\ \E i \in 1..Len(got[e]) :
         got[e][i].kind = "ok" /\ got[e][i].slot # InSlot(pk[e])

\* The bytes of the frames e has written, and the bytes and the number of
\* the frames e's read_message has read to the end and accepted (returned,
\* or answered with the rekey signal after the body was read).
WrittenBytes(e) == Sum([i \in 1..Len(sent[e]) |-> Len(sent[e][i].packet)])
Completed(o) ==
  o.kind = "ok" \/ (o.kind = "rekey" /\ Len(o.taken) > o.slot.block_size)
ConsumedBytes(e) ==
  Sum([i \in 1..Len(got[e]) |->
         IF Completed(got[e][i]) THEN Len(got[e][i].taken) ELSE 0])
CompletedReads(e) ==
  Sum([i \in 1..Len(got[e]) |-> IF Completed(got[e][i]) THEN 1 ELSE 0])

\* C35: in every reachable state sent_bytes is the number of bytes written
\* to the stream in frames, received_bytes the number of bytes read_message
\* consumed for completed frames, sent_packets and received_packets the
\* numbers of those frames; and no step lowers any of the four.
CountersMatchTraffic ==
  /\ [](\A e \in Engines :
          /\ pk[e].sent_bytes = WrittenBytes(e)
          /\ pk[e].sent_packets = Len(sent[e])
          /\ pk[e].received_bytes = ConsumedBytes(e)
          /\ pk[e].received_packets = CompletedReads(e))
  /\ [][\A e \in Engines :
          /\ pk'[e].sent_bytes >= pk[e].sent_bytes
          /\ pk'[e].sent_packets >= pk[e].sent_packets
          /\ pk'[e].received_bytes >= pk[e].received_bytes
          /\ pk'[e].received_packets >= pk[e].received_packets]_vars

\* A has written two frames; B has accepted one and rejected one, and has
\* had a slot installed since.
CountedMixedTraffic ==
  /\ Len(sent["A"]) = 2
  /\ \E i, j \in 1..Len(got["B"]) :
       /\ got["B"][i].kind = "ok" /\ got["B"][j].kind # "ok"
       /\ got["B"][i].slot # InSlot(pk["B"])
  /\ pk["B"].received_bytes > 0

\* C36: a readline under way when the peer has closed the stream comes to
\* an end (with a line, an end-of-stream error or a timeout error), also
\* when it was called with timeout None.
ReadlineEndsAtEof ==
  \A e \in Readers : (rl.pc = "recv" /\ eof[e]) ~> (rl.pc = "idle")

\* C37: after close(), every thread that was blocked in read() with no
\* timeout returns.
CloseReleasesReaders ==
  \A t \in PipeReaders :
    (bp.closed /\ pt[t].pc \in {"waiting", "woken"} /\ ~pt[t].timed)
      ~> (pt[t].pc = "idle")

DeleteRemovesHost ==
  [][hk'.op = "__delitem__" /\ hk' # hk =>
       IF hk'.result = "ok"
       THEN lookup(hk'.entries, hk'.host).result = None
       ELSE /\ hk'.result = "KeyError"
            /\ hk'.entries = hk.entries
            /\ lookup(hk.entries, hk'.host).result = None]_vars

\* C40: tell() follows the calls: a read or a readline that returns k bytes
\* moves it on by k, a write of k bytes moves it on by k, and a seek puts it
\* at the offset asked for (from the start, from where it was, or from the
\* end of the file).
TellFollowsCalls ==
  [][/\ (fs.pc = "idle" /\ fs'.calls = fs.calls + 1 /\ fs'.result = "data")
          => tell(bf') = tell(bf) + Len(fs'.out)
     /\ (fs.pc # "idle" /\ fs'.pc = "idle" /\ fs'.result = "line")
          => tell(bf') = tell(bf) + Len(fs'.out)
     /\ (fs'.calls = fs.calls + 1 /\ fs'.result = "ok")
          => tell(bf') = tell(bf) + Len(fs'.asked) - Len(fs.asked)
     /\ (fs'.calls = fs.calls + 1 /\ fs'.result = "seek")
          => tell(bf') = CASE fs'.whence = 0 -> fs'.offset
                           [] fs'.whence = 1 -> tell(bf) + fs'.offset
                           [] OTHER -> fs'.offset]_vars

====
